---- MODULE Spec2Model ----
(***************************************************************************)
(* HgRepositoryClient (nuclide-hg-repository-client/lib/                   *)
(* HgRepositoryClient.js): the shared caches of one repository client and  *)
(* the handlers that read and write them.  Every asynchronous backend call *)
(* is split into the step that issues it and the step that delivers its    *)
(* result, so that the handlers interleave as they do on the event loop.   *)
(***************************************************************************)
EXTENDS Integers, Sequences, FiniteSets, TLC

\* ---------------------------------------------------------------- bounds
NumPaths == 2
NumRevs == 2
MaxBatches == 2
MaxFilePaths == 2
MaxDestroyCalls == 2
MaxRequests == 2
MaxBurst == 2
NumHandles == 2

\* ------------------------------------------------------ program constants
RevisionIdToFileChangesMax == 100
FileContentsAtRevisionIdsMax == 20
FileContentsAtHeadMax == 30
BookmarksRetries == 2

Null == 0
Paths == 1..NumPaths
OutsidePath == NumPaths + 1
AllPaths == Paths \cup {OutsidePath}
Revs == 1..NumRevs
FilePathArrays == UNION {[1..n -> AllPaths] : n \in 0..MaxFilePaths}
RepoPathArrays == UNION {[1..n -> Paths] : n \in 0..MaxFilePaths}

\* ------------------------------------------------------------- maps, sets
EmptyMap == << >>
Range(s) == {s[i] : i \in DOMAIN s}
MapPut(m, k, v) == [x \in DOMAIN m \cup {k} |-> IF x = k THEN v ELSE m[x]]
MapMerge(m, n) == [x \in DOMAIN m \cup DOMAIN n |-> IF x \in DOMAIN n THEN n[x] ELSE m[x]]
MapDelete(m, ks) == [x \in DOMAIN m \ ks |-> m[x]]

\* --------------------------------------------------------------- lru-cache
\* A cache is the sequence of its entries, most recently used first.
LRUHas(cache, k) == \E i \in 1..Len(cache) : cache[i].key = k
LRUIndex(cache, k) == CHOOSE i \in 1..Len(cache) : cache[i].key = k
LRUPeek(cache, k) == IF LRUHas(cache, k) THEN cache[LRUIndex(cache, k)].value ELSE Null
LRUKeys(cache) == {cache[i].key : i \in 1..Len(cache)}
LRUWithout(cache, k) == SelectSeq(cache, LAMBDA e : e.key # k)
\* get(k): a hit makes k the most recently used entry
LRUTouch(cache, k) ==
    IF LRUHas(cache, k) THEN <<cache[LRUIndex(cache, k)]>> \o LRUWithout(cache, k) ELSE cache
\* set(k, v) of a cache without max
LRUSetUnbounded(cache, k, v, max) ==
    <<[key |-> k, value |-> v]>> \o LRUWithout(cache, k)
\* set(k, v): k becomes the most recently used entry, the least recently used is dropped
LRUSet(cache, k, v, max) ==
    LET put == <<[key |-> k, value |-> v]>> \o LRUWithout(cache, k)
    IN  IF Len(put) > max THEN SubSeq(put, 1, max) ELSE put
LRUReset == << >>

VARIABLES
    isDestroyed,               \* _sharedMembers.isDestroyed
    isInConflict,              \* _sharedMembers.isInConflict
    subscriptionsDisposed,     \* number of dispose() calls on _sharedMembers.subscriptions
    repoSubscriptions,         \* the repoSubscriptions promise: "pending", "established", "failed"
    repoDisposeCallbacks,      \* then-callbacks destroy() registered on it that have not run
    repoSubscriptionsDisposed, \* number of dispose() calls on the subscriptions handle
    hgStatusCache,             \* path -> status code number
    statusFetching,            \* status channels with a fetch subscribed
    isFetchingPathStatuses,    \* last value sent on the isFetchingPathStatuses subject
    statusObserved,            \* status channels whose statusChanges has a subscriber
    statusReplay,              \* channel -> the snapshots the ReplaySubject(1) of its statusChanges holds
    statusDebounce,            \* channel -> trigger events in its open quiet window, 0 when closed
    supersededFetching,        \* status channels with a superseded fetch still subscribed
    statusErrored,             \* status channels whose statusChanges ended with an error
    isCalculatingChanges,      \* channel -> last value of its isCalculatingChanges
    manualRefreshRequested,    \* history: requestPathStatusRefresh() was called
    bookmarks,                 \* value of the bookmarks BehaviorSubject
    bookmarksFetching,         \* attempt of the bookmark fetch in flight, 0 when none
    bookmarksDebounce,         \* the quiet window of the bookmark triggers is open
    hgDiffCache,               \* path -> DiffInfo
    hgDiffCacheFilesUpdating,  \* in-flight guard
    hgDiffCacheFilesToClear,   \* paths queued for removal
    currentHeadId,             \* memoized head revision, Null when unset
    fileContentsAtHead,        \* LRU path -> content
    fileContentsAtRevisionIds, \* LRU revision -> (path -> content)
    revisionIdToFileChanges,   \* LRU revision -> changes
    enableDiffStats,           \* last value of the enableDiffStats setting seen by the switchMap
    diffStatsErrored,          \* diffStatsSubscription ended with an error
    batches,                   \* the _updateDiffInfo observables the flatMap is subscribed to
    requests,                  \* backend fetches of the cache-or-fetch accessors in flight
    emitted,                   \* the emitter events and cache refresh calls of the last step
    destroyCalls,              \* history: number of destroy() calls
    removedInFlight,           \* history: paths whose removal was queued while their fetch was in flight
    staleInFlight,             \* history: paths of the diff batches in flight at the last revision refresh
    fetchedSinceRefresh,       \* history: paths whose head content was requested since the last refresh
    returned                   \* the last synchronous read: <<its name, its argument, the value returned>>

cacheVars == <<hgStatusCache, hgDiffCache, fileContentsAtHead, fileContentsAtRevisionIds,
               revisionIdToFileChanges>>
lifecycleVars == <<isDestroyed, subscriptionsDisposed, repoSubscriptions, repoDisposeCallbacks,
                   repoSubscriptionsDisposed, destroyCalls>>
statusVars == <<hgStatusCache, statusFetching, isFetchingPathStatuses>>
channelVars == <<statusObserved, statusReplay, statusDebounce, supersededFetching, statusErrored,
                 isCalculatingChanges, manualRefreshRequested>>
bookmarkVars == <<bookmarks, bookmarksFetching, bookmarksDebounce>>
diffVars == <<hgDiffCache, hgDiffCacheFilesUpdating, hgDiffCacheFilesToClear, currentHeadId,
              fileContentsAtHead, enableDiffStats, diffStatsErrored, batches, removedInFlight, staleInFlight,
              fetchedSinceRefresh>>
accessorVars == <<fileContentsAtRevisionIds, revisionIdToFileChanges, requests>>
vars == <<isDestroyed, isInConflict, returned, subscriptionsDisposed, repoSubscriptions,
          repoDisposeCallbacks, repoSubscriptionsDisposed, hgStatusCache, statusFetching,
          isFetchingPathStatuses, statusObserved, statusReplay, statusDebounce, supersededFetching,
          statusErrored, isCalculatingChanges, manualRefreshRequested, bookmarks,
          bookmarksFetching, bookmarksDebounce, hgDiffCache, hgDiffCacheFilesUpdating,
          hgDiffCacheFilesToClear, currentHeadId, fileContentsAtHead,
          fileContentsAtRevisionIds, revisionIdToFileChanges, enableDiffStats,
          diffStatsErrored, batches, requests, emitted, destroyCalls,
          removedInFlight, staleInFlight, fetchedSinceRefresh>>

\* no synchronous read has returned yet
NoRead == <<"none", Null, Null>>

\* emitter.emit(...) and revisionsCache.refreshRevisions() calls of a step, in order
Emit(events) == emitted' = events

\* ------------------------------------------------------------ diff batches
IdleBatch == [stage |-> "idle", paths |-> << >>, rev |-> Null, content |-> EmptyMap]
BatchSlots == 1..MaxBatches
FreeSlots == {b \in BatchSlots : batches[b].stage = "idle"}
FreeSlot == CHOOSE b \in FreeSlots : \A c \in FreeSlots : b <= c
InFlightPaths == UNION {Range(batches[b].paths) : b \in BatchSlots}

\* the content of a file at a revision, and the diff of the file on disk against it
ContentAt(p, rev) == rev
DiffInfoOf(content) == [added |-> content, deleted |-> content, lineDiffs |-> <<content>>]

\* every path but OutsidePath lies in the working directory
isPathRelevantToRepository(p) == p # OutsidePath

\* diffStatsSubscription is subscribed: not disposed by destroy(), not ended by an error
DiffStatsSubscribed == ~isDestroyed /\ ~diffStatsErrored

\* the filter without its test of the guard
RECURSIVE PathsToFetchUnguarded(_, _)
PathsToFetchUnguarded(filePaths, updating) ==
    IF filePaths = << >> THEN << >>
    ELSE LET p == Head(filePaths)
         IN  IF ~isPathRelevantToRepository(p)
             THEN PathsToFetchUnguarded(Tail(filePaths), updating)
             ELSE <<p>> \o PathsToFetchUnguarded(Tail(filePaths), updating \cup {p})

\* filePaths.filter(...) of _updateDiffInfo: the paths accepted, in order, given the guard
RECURSIVE PathsToFetch(_, _)
PathsToFetch(filePaths, updating) ==
    IF filePaths = << >> THEN << >>
    ELSE LET p == Head(filePaths)
         IN  IF ~isPathRelevantToRepository(p) THEN PathsToFetch(Tail(filePaths), updating)
             ELSE IF p \in updating THEN PathsToFetch(Tail(filePaths), updating)
             ELSE <<p>> \o PathsToFetch(Tail(filePaths), updating \cup {p})

\* the fileContentsAtHead.get(filePath) calls of _getFileDiffs, in order
RECURSIVE GetAll(_, _)
GetAll(cache, paths) ==
    IF paths = << >> THEN cache ELSE GetAll(LRUTouch(cache, Head(paths)), Tail(paths))

\* _getFileDiffs at subscription: memoized contents are used, the others are requested
FileDiffsBatch(pathsToFetch, revision) ==
    [stage |-> "diff", paths |-> pathsToFetch, rev |-> revision,
     content |-> [p \in {q \in Range(pathsToFetch) : LRUHas(fileContentsAtHead, q)}
                     |-> LRUPeek(fileContentsAtHead, p)]]

StartFileDiffs(b, pathsToFetch, revision) ==
    /\ batches' = [batches EXCEPT ![b] = FileDiffsBatch(pathsToFetch, revision)]
    /\ fileContentsAtHead' = GetAll(fileContentsAtHead, pathsToFetch)
    /\ fetchedSinceRefresh' = fetchedSinceRefresh \cup
           {q \in Range(pathsToFetch) : ~LRUHas(fileContentsAtHead, q)}

\* _updateDiffInfo(filePaths) with a _getCurrentHeadId that never answers from the memo
UpdateDiffInfoUnmemoized(filePaths) ==
    /\ DiffStatsSubscribed
    /\ enableDiffStats
    /\ LET pathsToFetch == PathsToFetch(filePaths, hgDiffCacheFilesUpdating)
       IN  /\ hgDiffCacheFilesUpdating' = hgDiffCacheFilesUpdating \cup Range(pathsToFetch)
           /\ IF pathsToFetch = << >>
              THEN UNCHANGED batches
              ELSE /\ FreeSlots # {}
                   /\ batches' = [batches EXCEPT ![FreeSlot] =
                          [stage |-> "headId", paths |-> pathsToFetch, rev |-> Null,
                           content |-> EmptyMap]]
    /\ Emit(<< >>)
    /\ UNCHANGED <<lifecycleVars, isInConflict, returned, channelVars, bookmarkVars,
                   statusVars, accessorVars, hgDiffCache, fileContentsAtHead,
                   fetchedSinceRefresh, hgDiffCacheFilesToClear, currentHeadId,
                   enableDiffStats, diffStatsErrored, removedInFlight, staleInFlight>>

\* _updateDiffInfo(filePaths), called by the flatMap of diffStatsSubscription
UpdateDiffInfo(filePaths) ==
    /\ DiffStatsSubscribed
    /\ enableDiffStats
    /\ LET pathsToFetch == PathsToFetch(filePaths, hgDiffCacheFilesUpdating)
       IN  /\ hgDiffCacheFilesUpdating' = hgDiffCacheFilesUpdating \cup Range(pathsToFetch)
           /\ IF pathsToFetch = << >>
              THEN UNCHANGED <<batches, fileContentsAtHead, fetchedSinceRefresh>>
              ELSE /\ FreeSlots # {}
                   /\ IF currentHeadId # Null
                      THEN StartFileDiffs(FreeSlot, pathsToFetch, currentHeadId)
                      ELSE /\ batches' = [batches EXCEPT ![FreeSlot] =
                                  [stage |-> "headId", paths |-> pathsToFetch, rev |-> Null,
                                   content |-> EmptyMap]]
                           /\ UNCHANGED <<fileContentsAtHead, fetchedSinceRefresh>>
    /\ Emit(<< >>)
    /\ UNCHANGED <<lifecycleVars, isInConflict, returned, channelVars, bookmarkVars,
                   statusVars, accessorVars, hgDiffCache,
                   hgDiffCacheFilesToClear, currentHeadId, enableDiffStats, diffStatsErrored,
                   removedInFlight, staleInFlight>>

\* service.getHeadId() delivers: _getCurrentHeadId stores it, the switchMap goes on
HeadIdResult(b, headId) ==
    /\ DiffStatsSubscribed
    /\ batches[b].stage = "headId"
    /\ currentHeadId' = headId
    /\ IF headId = Null
       THEN /\ batches' = [batches EXCEPT ![b] = IdleBatch]
            /\ staleInFlight' = staleInFlight \ Range(batches[b].paths)
            /\ UNCHANGED <<fileContentsAtHead, fetchedSinceRefresh>>
       ELSE /\ StartFileDiffs(b, batches[b].paths, headId)
            /\ UNCHANGED staleInFlight
    /\ Emit(<< >>)
    /\ UNCHANGED <<lifecycleVars, isInConflict, returned, channelVars, bookmarkVars,
                   statusVars, accessorVars, hgDiffCache,
                   hgDiffCacheFilesUpdating, hgDiffCacheFilesToClear, enableDiffStats,
                   diffStatsErrored, removedInFlight>>

\* service.fetchFileContentAtRevision(filePath, revision) delivers inside _getFileDiffs
HeadContentResult(b, p) ==
    /\ DiffStatsSubscribed
    /\ batches[b].stage = "diff"
    /\ p \in Range(batches[b].paths) \ DOMAIN batches[b].content
    /\ LET contents == ContentAt(p, batches[b].rev)
       IN  /\ fileContentsAtHead' = LRUSet(fileContentsAtHead, p, contents, FileContentsAtHeadMax)
           /\ batches' = [batches EXCEPT ![b].content = MapPut(@, p, contents)]
    /\ Emit(<< >>)
    /\ UNCHANGED <<lifecycleVars, isInConflict, returned, channelVars, bookmarkVars,
                   statusVars, accessorVars, hgDiffCache,
                   hgDiffCacheFilesUpdating, hgDiffCacheFilesToClear, currentHeadId,
                   enableDiffStats, diffStatsErrored, removedInFlight, staleInFlight, fetchedSinceRefresh>>

\* every diff of the batch is there: the do() of _updateDiffInfo runs
FileDiffsResult(b) ==
    /\ DiffStatsSubscribed
    /\ batches[b].stage = "diff"
    /\ DOMAIN batches[b].content = Range(batches[b].paths)
    /\ LET pathsToDiffInfo == [p \in Range(batches[b].paths) |-> DiffInfoOf(batches[b].content[p])]
       IN  hgDiffCache' = MapDelete(MapMerge(hgDiffCache, pathsToDiffInfo), hgDiffCacheFilesToClear)
    /\ hgDiffCacheFilesToClear' = {}
    /\ hgDiffCacheFilesUpdating' = hgDiffCacheFilesUpdating \ Range(batches[b].paths)
    /\ batches' = [batches EXCEPT ![b] = IdleBatch]
    /\ removedInFlight' = removedInFlight \ Range(batches[b].paths)
    /\ staleInFlight' = staleInFlight \ Range(batches[b].paths)
    /\ Emit(<<"did-change-statuses">>)
    /\ UNCHANGED <<lifecycleVars, isInConflict, returned, channelVars, bookmarkVars,
                   statusVars, accessorVars, currentHeadId,
                   fileContentsAtHead, enableDiffStats, diffStatsErrored, fetchedSinceRefresh>>

\* a backend call or the diff of a batch fails: the error passes the flatMap and ends
\* diffStatsSubscription, which unsubscribes from every batch
FileDiffsError(b) ==
    /\ DiffStatsSubscribed
    /\ batches[b].stage # "idle"
    /\ diffStatsErrored' = TRUE
    /\ batches' = [c \in BatchSlots |-> IdleBatch]
    /\ removedInFlight' = {}
    /\ staleInFlight' = {}
    /\ Emit(<< >>)
    /\ UNCHANGED <<lifecycleVars, isInConflict, returned, channelVars, bookmarkVars,
                   statusVars, accessorVars, hgDiffCache,
                   hgDiffCacheFilesUpdating, hgDiffCacheFilesToClear, currentHeadId,
                   fileContentsAtHead, enableDiffStats, fetchedSinceRefresh>>

\* the buffer of an editor of filePath closes or is renamed, or its pane item is hidden
BufferClosed(filePath) ==
    /\ DiffStatsSubscribed
    /\ enableDiffStats
    /\ hgDiffCacheFilesToClear' = hgDiffCacheFilesToClear \cup {filePath}
    /\ removedInFlight' = IF filePath \in InFlightPaths
                          THEN removedInFlight \cup {filePath} ELSE removedInFlight
    /\ UNCHANGED staleInFlight
    /\ Emit(<< >>)
    /\ UNCHANGED <<lifecycleVars, isInConflict, returned, channelVars, bookmarkVars,
                   statusVars, accessorVars, hgDiffCache,
                   hgDiffCacheFilesUpdating, currentHeadId, fileContentsAtHead, enableDiffStats,
                   diffStatsErrored, batches, fetchedSinceRefresh>>

\* the enableDiffStats setting changes
EnableDiffStatsChanged(enable) ==
    /\ DiffStatsSubscribed
    /\ enable # enableDiffStats
    /\ enableDiffStats' = enable
    /\ IF ~enable
       THEN /\ hgDiffCache' = EmptyMap
            /\ Emit(<<"did-change-statuses">>)
       ELSE /\ UNCHANGED hgDiffCache
            /\ Emit(<< >>)
    /\ UNCHANGED <<lifecycleVars, isInConflict, returned, channelVars, bookmarkVars, statusVars, accessorVars,
                   hgDiffCacheFilesUpdating, hgDiffCacheFilesToClear, currentHeadId,
                   fileContentsAtHead, diffStatsErrored, batches, removedInFlight, staleInFlight,
                   fetchedSinceRefresh>>

\* the subscriber of shouldRevisionsUpdate, at a debounced trigger
RevisionsUpdate ==
    /\ ~isDestroyed
    /\ fileContentsAtHead' = LRUReset
    /\ hgDiffCache' = EmptyMap
    /\ fetchedSinceRefresh' = {}
    /\ staleInFlight' = InFlightPaths
    /\ Emit(<<"refreshRevisions">>)
    /\ UNCHANGED <<lifecycleVars, isInConflict, returned, channelVars, bookmarkVars, statusVars, accessorVars,
                   hgDiffCacheFilesUpdating, hgDiffCacheFilesToClear, currentHeadId,
                   enableDiffStats, diffStatsErrored, batches, removedInFlight>>

\* ---------------------------------------------------------- status channels
\* StatusCodeIdToNumber of hg-constants
StatusCodeIds == {"A", "C", "I", "M", "!", "R", "?"}
StatusCodeIdToNumber(id) ==
    CASE id = "A" -> 1
      [] id = "C" -> 2
      [] id = "I" -> 3
      [] id = "M" -> 4
      [] id = "!" -> 5
      [] id = "R" -> 6
      [] id = "?" -> 7
\* mapTransform(uriToStatusIds, (v, k) => StatusCodeIdToNumber[v])
mapTransform(uriToStatusIds) ==
    [p \in DOMAIN uriToStatusIds |-> StatusCodeIdToNumber(uriToStatusIds[p])]
StatusSnapshots(ids) == UNION {[S -> ids] : S \in SUBSET Paths}

Channels == {"uncommitted", "stack", "head"}

\* fastDebounce: an event opens the quiet window or extends the open one; the window
\* holds n events
fastDebounce(n) == IF n < MaxBurst THEN n + 1 ELSE MaxBurst

\* _tryObserve: the notifications of the repository subscriptions flow
NotificationsFlowAlways == repoSubscriptions # "pending"
NotificationsFlow == repoSubscriptions = "established" /\ repoSubscriptionsDisposed = 0

\* the merge of the fetches, none unsubscribed
StartStatusFetchMerged(ch) ==
    /\ ch \notin statusErrored
    /\ isFetchingPathStatuses' = TRUE
    /\ statusFetching' = statusFetching \cup {ch}
    /\ supersededFetching' = supersededFetching \cup ({ch} \cap statusFetching)
    /\ isCalculatingChanges' = [isCalculatingChanges EXCEPT ![ch] = TRUE]

\* a trigger reaches the switchMap of _observeStatus: next(true), the fetch in flight is
\* unsubscribed (its finally sends false), the new fetch starts; triggers.map(_ => true)
StartStatusFetch(ch) ==
    /\ ch \notin statusErrored
    /\ isFetchingPathStatuses' = (ch \notin statusFetching)
    /\ statusFetching' = statusFetching \cup {ch}
    /\ supersededFetching' = supersededFetching
    /\ isCalculatingChanges' = [isCalculatingChanges EXCEPT ![ch] = TRUE]

\* an event on a channel whose quiet window passes at once
StatusTrigger(ch) ==
    /\ ch \in statusObserved
    /\ StartStatusFetch(ch)
    /\ Emit(<< >>)
    /\ UNCHANGED <<lifecycleVars, isInConflict, returned, bookmarkVars, hgStatusCache, statusObserved, statusReplay,
                   statusDebounce, statusErrored, manualRefreshRequested, diffVars,
                   accessorVars>>

\* a consumer subscribes to the statusChanges of a channel: startWith(null)
ObserveStatusChanges(ch) ==
    /\ ch \notin statusObserved
    /\ statusObserved' = statusObserved \cup {ch}
    /\ StartStatusFetch(ch)
    /\ Emit(<< >>)
    /\ UNCHANGED <<lifecycleVars, isInConflict, returned, bookmarkVars, hgStatusCache, statusReplay, statusDebounce,
                   statusErrored, manualRefreshRequested, diffVars, accessorVars>>

\* a further consumer on a statusChanges without cacheWhileSubscribed: its own
\* startWith(null) reaches its own switchMap
ObserveStatusChangesUnshared(ch) ==
    /\ ch \in statusObserved
    /\ returned' = <<"statusChanges", ch, << >> >>
    /\ StartStatusFetchMerged(ch)
    /\ Emit(<< >>)
    /\ UNCHANGED <<lifecycleVars, isInConflict, bookmarkVars, hgStatusCache, statusObserved,
                   statusReplay, statusDebounce, statusErrored, manualRefreshRequested,
                   diffVars, accessorVars>>

\* a further consumer subscribes to the statusChanges of a channel that has a
\* subscriber: cacheWhileSubscribed replays the last snapshot, if there is one
ObserveStatusChangesAgain(ch) ==
    /\ ch \in statusObserved
    /\ returned' = <<"statusChanges", ch, statusReplay[ch]>>
    /\ Emit(<< >>)
    /\ UNCHANGED <<lifecycleVars, isInConflict, channelVars, bookmarkVars, statusVars,
                   diffVars, accessorVars>>

\* a trigger per event of the window
DebouncedTriggerPerEvent(ch) ==
    /\ statusDebounce[ch] > 0
    /\ statusDebounce' = [statusDebounce EXCEPT ![ch] = @ - 1]
    /\ StartStatusFetch(ch)
    /\ Emit(<< >>)
    /\ UNCHANGED <<lifecycleVars, isInConflict, returned, bookmarkVars, hgStatusCache, statusObserved, statusReplay,
                   statusErrored, manualRefreshRequested, diffVars, accessorVars>>

\* the quiet window of a channel ends: the debounced trigger reaches the switchMap
DebouncedTrigger(ch) ==
    /\ statusDebounce[ch] > 0
    /\ statusDebounce' = [statusDebounce EXCEPT ![ch] = 0]
    /\ StartStatusFetch(ch)
    /\ Emit(<< >>)
    /\ UNCHANGED <<lifecycleVars, isInConflict, returned, bookmarkVars, hgStatusCache, statusObserved, statusReplay,
                   statusErrored, manualRefreshRequested, diffVars, accessorVars>>

\* an event of fileChanges or repoStateChanges reaches the debounce of every channel
\* that is subscribed
TriggerEvent ==
    statusDebounce' = [ch \in Channels |->
        IF ch \in statusObserved THEN fastDebounce(statusDebounce[ch]) ELSE statusDebounce[ch]]

\* observeFilesDidChange or observeHgRepoStateDidChange of the repository subscriptions
FilesDidChange ==
    /\ NotificationsFlow
    /\ TriggerEvent
    /\ Emit(<< >>)
    /\ UNCHANGED <<lifecycleVars, isInConflict, returned, bookmarkVars, statusVars, statusObserved, statusReplay,
                   supersededFetching, statusErrored, isCalculatingChanges,
                   manualRefreshRequested, diffVars, accessorVars>>

requestPathStatusRefresh ==
    /\ TriggerEvent
    /\ manualRefreshRequested' = TRUE
    /\ Emit(<< >>)
    /\ UNCHANGED <<lifecycleVars, isInConflict, returned, bookmarkVars, statusVars, statusObserved, statusReplay,
                   supersededFetching, statusErrored, isCalculatingChanges, diffVars,
                   accessorVars>>

\* a fetch of a channel delivers a snapshot: statusChanges.map(_ => false), and
\* statusChangesSubscription stores the uncommitted one
StatusDelivered(ch, uriToStatusIds, latest) ==
    /\ IF latest THEN ch \in statusFetching ELSE ch \in supersededFetching
    /\ IF ch = "uncommitted" /\ ~isDestroyed
       THEN /\ hgStatusCache' = mapTransform(uriToStatusIds)
            /\ Emit(<<"did-change-statuses">>)
       ELSE /\ UNCHANGED hgStatusCache
            /\ Emit(<< >>)
    /\ isCalculatingChanges' = [isCalculatingChanges EXCEPT ![ch] = FALSE]
    /\ statusReplay' = [statusReplay EXCEPT ![ch] = <<mapTransform(uriToStatusIds)>>]
    /\ UNCHANGED <<lifecycleVars, isInConflict, returned, bookmarkVars, statusFetching,
                   isFetchingPathStatuses, statusObserved, statusDebounce, supersededFetching,
                   statusErrored, manualRefreshRequested, diffVars, accessorVars>>

StatusFetched(ch, uriToStatusIds) ==
    \E latest \in BOOLEAN : StatusDelivered(ch, uriToStatusIds, latest)

\* the fetch of a channel completes: the finally sends false
StatusFetchEnded(ch) ==
    /\ ch \in statusFetching
    /\ statusFetching' = statusFetching \ {ch}
    /\ isFetchingPathStatuses' = FALSE
    /\ Emit(<< >>)
    /\ UNCHANGED <<lifecycleVars, isInConflict, returned, channelVars, bookmarkVars, hgStatusCache,
                   diffVars, accessorVars>>

\* the failure without its catch: the error ends statusChanges
StatusFetchFailedUncaught(ch) ==
    /\ ch \in statusFetching
    /\ statusFetching' = statusFetching \ {ch}
    /\ isFetchingPathStatuses' = FALSE
    /\ statusErrored' = statusErrored \cup {ch}
    /\ Emit(<<"error: HgService cannot fetch statuses">>)
    /\ UNCHANGED <<lifecycleVars, isInConflict, returned, bookmarkVars, hgStatusCache, statusObserved, statusReplay,
                   statusDebounce, supersededFetching, isCalculatingChanges,
                   manualRefreshRequested, diffVars, accessorVars>>

\* the fetch of a channel fails: the catch logs the error and completes the fetch with
\* an empty observable, the finally sends false
StatusFetchFailed(ch) ==
    /\ ch \in statusFetching
    /\ statusFetching' = statusFetching \ {ch}
    /\ isFetchingPathStatuses' = FALSE
    /\ statusErrored' = statusErrored
    /\ Emit(<<"error: HgService cannot fetch statuses">>)
    /\ UNCHANGED <<lifecycleVars, isInConflict, returned, bookmarkVars, hgStatusCache, statusObserved, statusReplay,
                   statusDebounce, supersededFetching, isCalculatingChanges,
                   manualRefreshRequested, diffVars, accessorVars>>

\* --------------------------------------------------------------- bookmarks
BookmarkLists == {<< >>, <<"master">>}

\* observeActiveBookmarkDidChange or observeBookmarksDidChange of the repository
\* subscriptions reaches the debounce of bookmarksUpdates
BookmarksDidChange ==
    /\ ~isDestroyed
    /\ NotificationsFlow
    /\ bookmarksDebounce' = TRUE
    /\ Emit(<< >>)
    /\ UNCHANGED <<lifecycleVars, isInConflict, returned, channelVars, bookmarks, bookmarksFetching,
                   statusVars, diffVars, accessorVars>>

\* the quiet window ends: the switchMap drops the fetch in flight and starts the first
\* attempt of a new one
BookmarksTrigger ==
    /\ ~isDestroyed
    /\ bookmarksDebounce
    /\ bookmarksDebounce' = FALSE
    /\ bookmarksFetching' = 1
    /\ Emit(<< >>)
    /\ UNCHANGED <<lifecycleVars, isInConflict, returned, channelVars, bookmarks, statusVars, diffVars,
                   accessorVars>>

\* service.fetchBookmarks() resolves: the subscriber of bookmarksUpdates
BookmarksFetched(list) ==
    /\ ~isDestroyed
    /\ bookmarksFetching > 0
    /\ bookmarks' = [isLoading |-> FALSE, bookmarks |-> list]
    /\ bookmarksFetching' = 0
    /\ Emit(<< >>)
    /\ UNCHANGED <<lifecycleVars, isInConflict, returned, channelVars, bookmarksDebounce, statusVars,
                   diffVars, accessorVars>>

\* an attempt rejects or times out under a retry() without a count
BookmarksFetchFailedRetryAlways ==
    /\ ~isDestroyed
    /\ bookmarksFetching > 0
    /\ bookmarksFetching' = bookmarksFetching + 1
    /\ Emit(<< >>)
    /\ UNCHANGED <<lifecycleVars, isInConflict, returned, channelVars, bookmarks, bookmarksDebounce,
                   statusVars, diffVars, accessorVars>>

\* an attempt rejects or times out: retry(2) subscribes again, then the catch logs the
\* error and completes the fetch with an empty observable
BookmarksFetchFailed ==
    /\ ~isDestroyed
    /\ bookmarksFetching > 0
    /\ IF bookmarksFetching <= BookmarksRetries
       THEN /\ bookmarksFetching' = bookmarksFetching + 1
            /\ Emit(<< >>)
       ELSE /\ bookmarksFetching' = 0
            /\ Emit(<<"error: failed to fetch bookmarks info">>)
    /\ UNCHANGED <<lifecycleVars, isInConflict, returned, channelVars, bookmarks, bookmarksDebounce,
                   statusVars, diffVars, accessorVars>>

\* ------------------------------------------------- cache-or-fetch accessors
IdleRequest == [kind |-> "idle", path |-> Null, rev |-> Null, attached |-> FALSE]
RequestSlots == 1..MaxRequests
FreeRequests == {r \in RequestSlots : requests[r].kind = "idle"}
FreeRequest == CHOOSE r \in FreeRequests : \A q \in FreeRequests : r <= q
ChangesAt(rev) == rev

\* the Map a pending fetchFileContentAtRevision writes to is no longer the cache's entry
Detach(reqs, kept) ==
    [r \in RequestSlots |->
        IF reqs[r].kind = "content" /\ reqs[r].rev \notin kept
        THEN [reqs[r] EXCEPT !.attached = FALSE] ELSE reqs[r]]

fetchFileContentAtRevision(filePath, revision) ==
    LET hit == LRUHas(fileContentsAtRevisionIds, revision)
        cache == IF hit THEN LRUTouch(fileContentsAtRevisionIds, revision)
                 ELSE LRUSet(fileContentsAtRevisionIds, revision, EmptyMap,
                             FileContentsAtRevisionIdsMax)
        fileContentsAtRevision == LRUPeek(cache, revision)
    IN  /\ fileContentsAtRevisionIds' = cache
        /\ IF filePath \in DOMAIN fileContentsAtRevision
           THEN requests' = Detach(requests, LRUKeys(cache))
           ELSE /\ FreeRequests # {}
                /\ requests' = [Detach(requests, LRUKeys(cache)) EXCEPT ![FreeRequest] =
                       [kind |-> "content", path |-> filePath, rev |-> revision,
                        attached |-> TRUE]]
        /\ Emit(<< >>)
        /\ UNCHANGED <<lifecycleVars, isInConflict, returned, channelVars, bookmarkVars, statusVars, diffVars,
                       revisionIdToFileChanges>>

\* its backend fetch delivers: the do() writes into the Map taken at the call
FileContentAtRevisionFetched(r) ==
    /\ requests[r].kind = "content"
    /\ IF requests[r].attached
       THEN LET i == LRUIndex(fileContentsAtRevisionIds, requests[r].rev)
            IN  fileContentsAtRevisionIds' =
                    [fileContentsAtRevisionIds EXCEPT ![i].value =
                        MapPut(@, requests[r].path, ContentAt(requests[r].path, requests[r].rev))]
       ELSE UNCHANGED fileContentsAtRevisionIds
    /\ requests' = [requests EXCEPT ![r] = IdleRequest]
    /\ Emit(<< >>)
    /\ UNCHANGED <<lifecycleVars, isInConflict, returned, channelVars, bookmarkVars,
                   statusVars, diffVars, revisionIdToFileChanges>>

fetchFilesChangedAtRevision(revision) ==
    /\ IF LRUHas(revisionIdToFileChanges, revision)
       THEN /\ revisionIdToFileChanges' = LRUTouch(revisionIdToFileChanges, revision)
            /\ UNCHANGED requests
       ELSE /\ FreeRequests # {}
            /\ requests' = [requests EXCEPT ![FreeRequest] =
                   [kind |-> "changes", path |-> Null, rev |-> revision, attached |-> FALSE]]
            /\ UNCHANGED revisionIdToFileChanges
    /\ Emit(<< >>)
    /\ UNCHANGED <<lifecycleVars, isInConflict, returned, channelVars, bookmarkVars,
                   statusVars, diffVars, fileContentsAtRevisionIds>>

FilesChangedAtRevisionFetched(r) ==
    /\ requests[r].kind = "changes"
    /\ revisionIdToFileChanges' = LRUSet(revisionIdToFileChanges, requests[r].rev,
                                         ChangesAt(requests[r].rev), RevisionIdToFileChangesMax)
    /\ requests' = [requests EXCEPT ![r] = IdleRequest]
    /\ Emit(<< >>)
    /\ UNCHANGED <<lifecycleVars, isInConflict, returned, channelVars, bookmarkVars,
                   statusVars, diffVars, fileContentsAtRevisionIds>>

\* the backend fetch of an accessor fails
RequestFailed(r) ==
    /\ requests[r].kind # "idle"
    /\ requests' = [requests EXCEPT ![r] = IdleRequest]
    /\ Emit(<< >>)
    /\ UNCHANGED <<lifecycleVars, isInConflict, returned, channelVars, bookmarkVars,
                   statusVars, diffVars, fileContentsAtRevisionIds,
                   revisionIdToFileChanges>>

\* ------------------------------------------------------ mutating commands
ExitCodes == {0, 1}
ProcessMessages ==
    {[kind |-> k, exitCode |-> Null] : k \in {"stdout", "stderr", "error"}}
        \cup {[kind |-> "exit", exitCode |-> c] : c \in ExitCodes}
SuccessExit == [kind |-> "exit", exitCode |-> 0]
IsSuccessExit(message) == message.kind = "exit" /\ message.exitCode = 0

\* clears everything, whatever the paths
_clearClientCacheAll(filePaths) ==
    /\ hgDiffCache' = EmptyMap
    /\ hgStatusCache' = EmptyMap
    /\ fileContentsAtHead' = LRUReset
    /\ Emit(<<"did-change-statuses">>)

_clearClientCache(filePaths) ==
    /\ IF Len(filePaths) = 0
       THEN /\ hgDiffCache' = EmptyMap
            /\ hgStatusCache' = EmptyMap
            /\ fileContentsAtHead' = LRUReset
       ELSE /\ hgDiffCache' = MapDelete(hgDiffCache, Range(filePaths))
            /\ hgStatusCache' = MapDelete(hgStatusCache, Range(filePaths))
            /\ UNCHANGED fileContentsAtHead
    /\ Emit(<<"did-change-statuses">>)

\* the exit code test inverted
_clearOnFailedExit(message, filePaths) ==
    /\ IF message.kind = "exit" /\ message.exitCode # 0
       THEN _clearClientCache(filePaths)
       ELSE /\ UNCHANGED <<hgDiffCache, hgStatusCache, fileContentsAtHead>>
            /\ Emit(<< >>)
    /\ UNCHANGED <<lifecycleVars, isInConflict, returned, channelVars, bookmarkVars,
                   statusFetching, isFetchingPathStatuses,
                   accessorVars, hgDiffCacheFilesUpdating, hgDiffCacheFilesToClear,
                   currentHeadId, enableDiffStats, diffStatsErrored, batches, removedInFlight, staleInFlight,
                   fetchedSinceRefresh>>

\* the exit code not tested
_clearOnAnyExit(message, filePaths) ==
    /\ IF message.kind = "exit"
       THEN _clearClientCache(filePaths)
       ELSE /\ UNCHANGED <<hgDiffCache, hgStatusCache, fileContentsAtHead>>
            /\ Emit(<< >>)
    /\ UNCHANGED <<lifecycleVars, isInConflict, returned, channelVars, bookmarkVars,
                   statusFetching, isFetchingPathStatuses,
                   accessorVars, hgDiffCacheFilesUpdating, hgDiffCacheFilesToClear,
                   currentHeadId, enableDiffStats, diffStatsErrored, batches, removedInFlight, staleInFlight,
                   fetchedSinceRefresh>>

_clearOnSuccessExit(message, filePaths) ==
    /\ IF IsSuccessExit(message)
       THEN _clearClientCache(filePaths)
       ELSE /\ UNCHANGED <<hgDiffCache, hgStatusCache, fileContentsAtHead>>
            /\ Emit(<< >>)
    /\ UNCHANGED <<lifecycleVars, isInConflict, returned, channelVars, bookmarkVars,
                   statusFetching, isFetchingPathStatuses,
                   accessorVars, hgDiffCacheFilesUpdating, hgDiffCacheFilesToClear,
                   currentHeadId, enableDiffStats, diffStatsErrored, batches, removedInFlight, staleInFlight,
                   fetchedSinceRefresh>>

\* service.commit(message, filePaths) delivers a process message
commit(filePaths, message) == _clearOnSuccessExit(message, filePaths)

\* service.amend(message, amendMode, filePaths) delivers a process message
amend(filePaths, message) == _clearOnSuccessExit(message, filePaths)

\* a command that hands the call to the service and returns what the service returns
ServiceCall ==
    /\ Emit(<< >>)
    /\ UNCHANGED <<lifecycleVars, isInConflict, returned, channelVars, bookmarkVars,
                   statusVars, diffVars, accessorVars>>

\* service.revert(filePaths, toRevision) resolves
revert(filePaths) == ServiceCall
\* checkoutHead(filePaths): service.revert(filePaths) resolves
checkoutHead(filePaths) == ServiceCall
\* service.checkout(reference, create, options) delivers a process message
checkoutReference(message) == ServiceCall
\* service.rebase(destination, source) delivers a process message
rebase(message) == ServiceCall
\* service.pull(options) delivers a process message
pull(message) == ServiceCall

\* ------------------------------------------------------- synchronous reads
\* StatusCodeNumber of hg-constants
StatusCodeNumber ==
    [ADDED |-> 1, CLEAN |-> 2, IGNORED |-> 3, MODIFIED |-> 4, MISSING |-> 5, REMOVED |-> 6,
     UNTRACKED |-> 7]
\* a path inside the .hg directory of the repository (getPath())
HgDirPath == NumPaths + 2
ReadPaths == AllPaths \cup {HgDirPath, Null}
\* Map.get: undefined on a miss
MapGet(m, k) == IF k \in DOMAIN m THEN m[k] ELSE Null

isStatusModified(status) == status = StatusCodeNumber.MODIFIED
\* isStatusNew that takes only ADDED for new
isStatusNewAddedOnly(status) == status = StatusCodeNumber.ADDED
isStatusNew(status) == status = StatusCodeNumber.ADDED \/ status = StatusCodeNumber.UNTRACKED
isStatusAdded(status) == status = StatusCodeNumber.ADDED
isStatusUntracked(status) == status = StatusCodeNumber.UNTRACKED
isStatusIgnored(status) == status = StatusCodeNumber.IGNORED
_isPathWithinHgRepo(filePath) == filePath = HgDirPath

isPathModified(filePath) ==
    IF filePath = Null THEN FALSE
    ELSE LET cachedPathStatus == MapGet(hgStatusCache, filePath)
         IN  IF cachedPathStatus = Null THEN FALSE ELSE isStatusModified(cachedPathStatus)
isPathNew(filePath) ==
    IF filePath = Null THEN FALSE
    ELSE LET cachedPathStatus == MapGet(hgStatusCache, filePath)
         IN  IF cachedPathStatus = Null THEN FALSE ELSE isStatusNew(cachedPathStatus)
isPathAdded(filePath) ==
    IF filePath = Null THEN FALSE
    ELSE LET cachedPathStatus == MapGet(hgStatusCache, filePath)
         IN  IF cachedPathStatus = Null THEN FALSE ELSE isStatusAdded(cachedPathStatus)
isPathUntracked(filePath) ==
    IF filePath = Null THEN FALSE
    ELSE LET cachedPathStatus == MapGet(hgStatusCache, filePath)
         IN  IF cachedPathStatus = Null THEN FALSE ELSE isStatusUntracked(cachedPathStatus)
isPathIgnored(filePath) ==
    IF filePath = Null THEN FALSE
    ELSE LET cachedPathStatus == MapGet(hgStatusCache, filePath)
         IN  IF cachedPathStatus = Null THEN _isPathWithinHgRepo(filePath)
             ELSE isStatusIgnored(cachedPathStatus)

\* getCachedPathStatus that hands out the lookup as it is
getCachedPathStatusRaw(filePath) == MapGet(hgStatusCache, filePath)
getCachedPathStatus(filePath) ==
    IF filePath = Null THEN StatusCodeNumber.CLEAN
    ELSE LET cachedStatus == MapGet(hgStatusCache, filePath)
         IN  IF cachedStatus # Null THEN cachedStatus ELSE StatusCodeNumber.CLEAN
getPathStatus(filePath) == getCachedPathStatus(filePath)

getDiffStats(filePath) ==
    LET cleanStats == [added |-> 0, deleted |-> 0]
    IN  IF filePath = Null THEN cleanStats
        ELSE IF filePath \in DOMAIN hgDiffCache
             THEN [added |-> hgDiffCache[filePath].added,
                   deleted |-> hgDiffCache[filePath].deleted]
             ELSE cleanStats
getLineDiffs(filePath) ==
    IF filePath = Null THEN << >>
    ELSE IF filePath \in DOMAIN hgDiffCache THEN hgDiffCache[filePath].lineDiffs ELSE << >>

StatusReads ==
    {"isPathModified", "isPathNew", "isPathAdded", "isPathUntracked", "isPathIgnored",
     "getPathStatus", "getCachedPathStatus"}
DiffReads == {"getDiffStats", "getLineDiffs"}
ReadValue(op, filePath) ==
    CASE op = "isPathModified" -> isPathModified(filePath)
      [] op = "isPathNew" -> isPathNew(filePath)
      [] op = "isPathAdded" -> isPathAdded(filePath)
      [] op = "isPathUntracked" -> isPathUntracked(filePath)
      [] op = "isPathIgnored" -> isPathIgnored(filePath)
      [] op = "getPathStatus" -> getPathStatus(filePath)
      [] op = "getCachedPathStatus" -> getCachedPathStatus(filePath)
      [] op = "getDiffStats" -> getDiffStats(filePath)
      [] op = "getLineDiffs" -> getLineDiffs(filePath)

\* a consumer calls one of the synchronous reads
Read(op, filePath) ==
    /\ returned' = <<op, filePath, ReadValue(op, filePath)>>
    /\ Emit(<< >>)
    /\ UNCHANGED <<lifecycleVars, isInConflict, channelVars, bookmarkVars, statusVars,
                   diffVars, accessorVars>>

\* ---------------------------------------------------------------- handles
\* the clients that share one _sharedMembers: the root client and its clones
Handles == 1..NumHandles
rootRepo == 1
\* _sharedMembers of a clone that holds a copy taken at construction
_sharedMembersCopied(h) ==
    IF h = rootRepo
    THEN [isInConflict |-> isInConflict, isDestroyed |-> isDestroyed,
          hgStatusCache |-> hgStatusCache]
    ELSE [isInConflict |-> FALSE, isDestroyed |-> FALSE, hgStatusCache |-> EmptyMap]
\* this._sharedMembers of a handle: the one object the constructor of the root creates
_sharedMembers(h) ==
    [isInConflict |-> isInConflict, isDestroyed |-> isDestroyed,
     hgStatusCache |-> hgStatusCache]

HandleReads == {"isInConflict", "isDestroyed", "getCachedPathStatus", "getAllPathStatuses"}
HandleReadValue(h, op, filePath) ==
    CASE op = "isInConflict" -> _sharedMembers(h).isInConflict
      [] op = "isDestroyed" -> _sharedMembers(h).isDestroyed
      [] op = "getCachedPathStatus" ->
             IF filePath = Null THEN StatusCodeNumber.CLEAN
             ELSE LET cachedStatus == MapGet(_sharedMembers(h).hgStatusCache, filePath)
                  IN  IF cachedStatus # Null THEN cachedStatus ELSE StatusCodeNumber.CLEAN
      [] op = "getAllPathStatuses" -> _sharedMembers(h).hgStatusCache

\* a consumer calls a synchronous read of a handle
HandleRead(h, op, filePath) ==
    /\ returned' = <<op, <<h, filePath>>, HandleReadValue(h, op, filePath)>>
    /\ Emit(<< >>)
    /\ UNCHANGED <<lifecycleVars, isInConflict, channelVars, bookmarkVars, statusVars,
                   diffVars, accessorVars>>

\* _conflictStateChanged that announces only a conflict
_conflictStateChangedOnlyTrue(value) ==
    /\ ~isDestroyed
    /\ NotificationsFlow
    /\ isInConflict' = value
    /\ Emit(IF value THEN <<"did-change-conflict-state">> ELSE << >>)
    /\ UNCHANGED <<lifecycleVars, returned, channelVars, bookmarkVars, statusVars, diffVars,
                   accessorVars>>

\* observeHgConflictStateDidChange of the repository subscriptions reaches its
\* subscriber, _conflictStateChanged(isInConflict)
_conflictStateChanged(value) ==
    /\ ~isDestroyed
    /\ NotificationsFlow
    /\ isInConflict' = value
    /\ Emit(<<"did-change-conflict-state">>)
    /\ UNCHANGED <<lifecycleVars, returned, channelVars, bookmarkVars, statusVars, diffVars,
                   accessorVars>>

\* ---------------------------------------------------------------- lifecycle
\* what destroy() leaves alone
DestroyFrame ==
    UNCHANGED <<isInConflict, returned, channelVars, bookmarks, repoSubscriptions,
                repoSubscriptionsDisposed, statusVars,
                hgDiffCache, hgDiffCacheFilesUpdating, hgDiffCacheFilesToClear,
                currentHeadId, fileContentsAtHead, enableDiffStats, diffStatsErrored,
                fetchedSinceRefresh>>

\* destroy() without the test of isDestroyed
destroyUnguarded ==
    /\ destroyCalls < MaxDestroyCalls
    /\ destroyCalls' = destroyCalls + 1
    /\ isDestroyed' = TRUE
    /\ Emit(<<"did-destroy">>)
    /\ subscriptionsDisposed' = subscriptionsDisposed + 1
    /\ batches' = [b \in BatchSlots |-> IdleBatch]
    /\ removedInFlight' = {}
    /\ staleInFlight' = {}
    /\ revisionIdToFileChanges' = LRUReset
    /\ fileContentsAtRevisionIds' = LRUReset
    /\ requests' = Detach(requests, {})
    /\ bookmarksFetching' = 0
    /\ bookmarksDebounce' = FALSE
    /\ repoDisposeCallbacks' = repoDisposeCallbacks + 1
    /\ DestroyFrame

\* destroy() without the reset of the revision caches
destroyWithoutReset ==
    /\ destroyCalls < MaxDestroyCalls
    /\ destroyCalls' = destroyCalls + 1
    /\ IF isDestroyed
       THEN /\ Emit(<< >>)
            /\ UNCHANGED <<isDestroyed, subscriptionsDisposed, repoDisposeCallbacks, batches,
                           removedInFlight, staleInFlight, bookmarksFetching, bookmarksDebounce>>
       ELSE /\ isDestroyed' = TRUE
            /\ Emit(<<"did-destroy">>)
            /\ subscriptionsDisposed' = subscriptionsDisposed + 1
            /\ batches' = [b \in BatchSlots |-> IdleBatch]
            /\ removedInFlight' = {}
            /\ staleInFlight' = {}
            /\ bookmarksFetching' = 0
            /\ bookmarksDebounce' = FALSE
            /\ repoDisposeCallbacks' = repoDisposeCallbacks + 1
    /\ UNCHANGED <<revisionIdToFileChanges, fileContentsAtRevisionIds, requests>>
    /\ DestroyFrame

destroy ==
    /\ destroyCalls < MaxDestroyCalls
    /\ destroyCalls' = destroyCalls + 1
    /\ IF isDestroyed
       THEN /\ Emit(<< >>)
            /\ UNCHANGED <<isDestroyed, subscriptionsDisposed, repoDisposeCallbacks,
                           revisionIdToFileChanges, fileContentsAtRevisionIds, requests,
                           batches, removedInFlight, staleInFlight, bookmarksFetching, bookmarksDebounce>>
       ELSE /\ isDestroyed' = TRUE
            /\ Emit(<<"did-destroy">>)
            /\ subscriptionsDisposed' = subscriptionsDisposed + 1
            /\ batches' = [b \in BatchSlots |-> IdleBatch]
            /\ removedInFlight' = {}
            /\ staleInFlight' = {}
            /\ bookmarksFetching' = 0
            /\ bookmarksDebounce' = FALSE
            /\ revisionIdToFileChanges' = LRUReset
            /\ fileContentsAtRevisionIds' = LRUReset
            /\ requests' = Detach(requests, {})
            /\ repoDisposeCallbacks' = repoDisposeCallbacks + 1
    /\ DestroyFrame

\* service.createRepositorySubscriptions() settles; a failure is caught and becomes null
RepoSubscriptionsSettled(outcome) ==
    /\ repoSubscriptions = "pending"
    /\ repoSubscriptions' = outcome
    /\ Emit(<< >>)
    /\ UNCHANGED <<isDestroyed, isInConflict, returned, channelVars, bookmarkVars,
                   subscriptionsDisposed, repoDisposeCallbacks,
                   repoSubscriptionsDisposed, destroyCalls, statusVars, diffVars, accessorVars>>

\* the then() callback of destroy() without the test of repoSubscriptions != null
RepoSubscriptionsThenUnchecked ==
    /\ repoDisposeCallbacks > 0
    /\ repoSubscriptions # "pending"
    /\ repoDisposeCallbacks' = repoDisposeCallbacks - 1
    /\ repoSubscriptionsDisposed' = repoSubscriptionsDisposed + 1
    /\ Emit(<< >>)
    /\ UNCHANGED <<isDestroyed, isInConflict, returned, channelVars, bookmarkVars,
                   subscriptionsDisposed, repoSubscriptions,
                   destroyCalls, statusVars, diffVars, accessorVars>>

\* the then() callback of destroy() runs
RepoSubscriptionsThen ==
    /\ repoDisposeCallbacks > 0
    /\ repoSubscriptions # "pending"
    /\ repoDisposeCallbacks' = repoDisposeCallbacks - 1
    /\ repoSubscriptionsDisposed' =
           IF repoSubscriptions = "established" THEN repoSubscriptionsDisposed + 1
           ELSE repoSubscriptionsDisposed
    /\ Emit(<< >>)
    /\ UNCHANGED <<isDestroyed, isInConflict, returned, channelVars, bookmarkVars,
                   subscriptionsDisposed, repoSubscriptions,
                   destroyCalls, statusVars, diffVars, accessorVars>>

\* ------------------------------------------------------------ specification
Init ==
    /\ isDestroyed = FALSE
    /\ isInConflict = FALSE
    /\ subscriptionsDisposed = 0
    /\ repoSubscriptions = "pending"
    /\ repoDisposeCallbacks = 0
    /\ repoSubscriptionsDisposed = 0
    /\ hgStatusCache = EmptyMap
    /\ statusFetching = {"uncommitted"}
    /\ isFetchingPathStatuses = TRUE
    /\ statusObserved = {"uncommitted"}
    /\ statusReplay = [ch \in Channels |-> << >>]
    /\ statusDebounce = [ch \in Channels |-> 0]
    /\ supersededFetching = {}
    /\ statusErrored = {}
    /\ isCalculatingChanges = [ch \in Channels |-> ch = "uncommitted"]
    /\ manualRefreshRequested = FALSE
    /\ bookmarks = [isLoading |-> TRUE, bookmarks |-> << >>]
    /\ bookmarksFetching = 0
    /\ bookmarksDebounce = TRUE
    /\ hgDiffCache = EmptyMap
    /\ hgDiffCacheFilesUpdating = {}
    /\ hgDiffCacheFilesToClear = {}
    /\ currentHeadId = Null
    /\ fileContentsAtHead = LRUReset
    /\ fileContentsAtRevisionIds = LRUReset
    /\ revisionIdToFileChanges = LRUReset
    /\ enableDiffStats \in BOOLEAN
    /\ diffStatsErrored = FALSE
    /\ batches = [b \in BatchSlots |-> IdleBatch]
    /\ requests = [r \in RequestSlots |-> IdleRequest]
    /\ emitted = << >>
    /\ destroyCalls = 0
    /\ removedInFlight = {}
    /\ staleInFlight = {}
    /\ fetchedSinceRefresh = {}
    /\ returned = NoRead

\* the diff pipeline, with what else writes the diff cache and the head-content cache
DiffNext ==
    \/ \E filePaths \in FilePathArrays : UpdateDiffInfo(filePaths)
    \/ \E b \in BatchSlots, headId \in Revs \cup {Null} : HeadIdResult(b, headId)
    \/ \E b \in BatchSlots, p \in Paths : HeadContentResult(b, p)
    \/ \E b \in BatchSlots : FileDiffsResult(b)
    \/ \E b \in BatchSlots : FileDiffsError(b)
    \/ \E p \in Paths : BufferClosed(p)
    \/ \E enable \in BOOLEAN : EnableDiffStatsChanged(enable)
    \/ RevisionsUpdate
    \/ \E filePaths \in FilePathArrays : commit(filePaths, SuccessExit)
    \/ destroy

Spec == Init /\ [][DiffNext]_vars

\* the diff updates alone: every array of paths, every answer of getHeadId, and the
\* revision refresh
HeadIdNext ==
    \/ \E filePaths \in FilePathArrays : UpdateDiffInfo(filePaths)
    \/ \E b \in BatchSlots, headId \in Revs \cup {Null} : HeadIdResult(b, headId)
    \/ \E b \in BatchSlots, p \in Paths : HeadContentResult(b, p)
    \/ \E b \in BatchSlots : FileDiffsResult(b)
    \/ RevisionsUpdate

HeadIdSpec == Init /\ [][HeadIdNext]_vars

\* the least path and the least revision
LifecyclePaths == {p \in Paths : \A q \in Paths : p <= q}
LifecycleRevs == {r \in Revs : \A q \in Revs : r <= q}

\* the diff updates with the closing of buffers; a backend call or a diff in flight
\* delivers in the end, an editor event may never come
QueueNext ==
    \/ \E p \in Paths : UpdateDiffInfo(<<p>>)
    \/ \E b \in BatchSlots, headId \in LifecycleRevs : HeadIdResult(b, headId)
    \/ \E b \in BatchSlots, p \in Paths : HeadContentResult(b, p)
    \/ \E b \in BatchSlots : FileDiffsResult(b)
    \/ \E p \in Paths : BufferClosed(p)

QueueFairness ==
    \A b \in BatchSlots :
        /\ WF_vars(\E headId \in LifecycleRevs : HeadIdResult(b, headId))
        /\ WF_vars(\E p \in Paths : HeadContentResult(b, p))
        /\ WF_vars(FileDiffsResult(b))

QueueSpec == Init /\ [][QueueNext]_vars /\ QueueFairness

\* the commands, with the pipelines that fill the caches they clear
CommandMessages == {SuccessExit, [kind |-> "exit", exitCode |-> 1], [kind |-> "stdout", exitCode |-> Null]}
CommandNext ==
    \/ StatusTrigger("uncommitted")
    \/ \E statuses \in StatusSnapshots({"M"}) : StatusFetched("uncommitted", statuses)
    \/ StatusFetchEnded("uncommitted")
    \/ \E p \in Paths : UpdateDiffInfo(<<p>>)
    \/ \E b \in BatchSlots, headId \in LifecycleRevs : HeadIdResult(b, headId)
    \/ \E b \in BatchSlots, p \in Paths : HeadContentResult(b, p)
    \/ \E b \in BatchSlots : FileDiffsResult(b)
    \/ \E filePaths \in RepoPathArrays, message \in CommandMessages : commit(filePaths, message)
    \/ \E filePaths \in RepoPathArrays, message \in CommandMessages : amend(filePaths, message)
    \/ \E filePaths \in RepoPathArrays : revert(filePaths)
    \/ \E filePaths \in RepoPathArrays : checkoutHead(filePaths)
    \/ \E message \in CommandMessages : checkoutReference(message)
    \/ \E message \in CommandMessages : rebase(message)
    \/ \E message \in CommandMessages : pull(message)

CommandSpec == Init /\ [][CommandNext]_vars

\* destroy(), with every cache filled and fetches of every kind in flight, for one
\* path and one revision
LifecycleNext ==
    \/ destroy
    \/ \E outcome \in {"established", "failed"} : RepoSubscriptionsSettled(outcome)
    \/ RepoSubscriptionsThen
    \/ StatusTrigger("uncommitted")
    \/ \E statuses \in [LifecyclePaths -> {"M"}] : StatusFetched("uncommitted", statuses)
    \/ StatusFetchEnded("uncommitted")
    \/ \E p \in LifecyclePaths : UpdateDiffInfo(<<p>>)
    \/ \E b \in BatchSlots, headId \in LifecycleRevs : HeadIdResult(b, headId)
    \/ \E b \in BatchSlots, p \in LifecyclePaths : HeadContentResult(b, p)
    \/ \E b \in BatchSlots : FileDiffsResult(b)
    \/ RevisionsUpdate
    \/ \E p \in LifecyclePaths, revision \in LifecycleRevs :
           fetchFileContentAtRevision(p, revision)
    \/ \E r \in RequestSlots : FileContentAtRevisionFetched(r)
    \/ \E revision \in LifecycleRevs : fetchFilesChangedAtRevision(revision)
    \/ \E r \in RequestSlots : FilesChangedAtRevisionFetched(r)
    \/ \E r \in RequestSlots : RequestFailed(r)
    \/ \E filePaths \in [{} -> Paths] \cup [{1} -> LifecyclePaths] : commit(filePaths, SuccessExit)

LifecycleSpec == Init /\ [][LifecycleNext]_vars

\* the three status channels with their consumers, their quiet windows and their fetches
StatusResults == [LifecyclePaths -> {"M", "A"}] \cup {EmptyMap}
StatusNext ==
    \/ \E ch \in Channels : ObserveStatusChanges(ch)
    \/ requestPathStatusRefresh
    \/ \E ch \in Channels : DebouncedTrigger(ch)
    \/ \E ch \in Channels, statuses \in StatusResults : StatusFetched(ch, statuses)
    \/ \E ch \in Channels : StatusFetchEnded(ch)
    \/ \E ch \in Channels : StatusFetchFailed(ch)

StatusSpec == Init /\ [][StatusNext]_vars

\* two status channels, the second subscribed later, with further consumers of both
ShareChannels == {"uncommitted", "stack"}
ShareNext ==
    \/ \E ch \in ShareChannels : ObserveStatusChanges(ch)
    \/ \E ch \in ShareChannels : ObserveStatusChangesAgain(ch)
    \/ requestPathStatusRefresh
    \/ \E ch \in ShareChannels : DebouncedTrigger(ch)
    \/ \E ch \in ShareChannels, statuses \in StatusResults : StatusFetched(ch, statuses)
    \/ \E ch \in ShareChannels : StatusFetchEnded(ch)

ShareSpec == Init /\ [][ShareNext]_vars

\* the repository subscriptions, the notifications and the manual refresh that feed the
\* uncommitted channel and the bookmark list, and destroy()
SubscriptionNext ==
    \/ \E outcome \in {"established", "failed"} : RepoSubscriptionsSettled(outcome)
    \/ FilesDidChange
    \/ BookmarksDidChange
    \/ requestPathStatusRefresh
    \/ DebouncedTrigger("uncommitted")
    \/ \E statuses \in [LifecyclePaths -> {"M"}] : StatusFetched("uncommitted", statuses)
    \/ StatusFetchEnded("uncommitted")
    \/ BookmarksTrigger
    \/ \E list \in BookmarkLists : BookmarksFetched(list)
    \/ BookmarksFetchFailed
    \/ destroy
    \/ RepoSubscriptionsThen

SubscriptionSpec == Init /\ [][SubscriptionNext]_vars

\* the synchronous reads, with the first uncommitted status fetch, which fills the status
\* cache, and the diff updates of one path, which fill the diff cache
ReadSnapshots == UNION {[S -> StatusCodeIds] : S \in SUBSET LifecyclePaths}
ReadNext ==
    \/ \E uriToStatusIds \in ReadSnapshots : StatusFetched("uncommitted", uriToStatusIds)
    \/ StatusFetchEnded("uncommitted")
    \/ \E p \in LifecyclePaths : UpdateDiffInfo(<<p>>)
    \/ \E b \in BatchSlots, headId \in LifecycleRevs : HeadIdResult(b, headId)
    \/ \E b \in BatchSlots, p \in LifecyclePaths : HeadContentResult(b, p)
    \/ \E b \in BatchSlots : FileDiffsResult(b)
    \/ \E op \in StatusReads \cup DiffReads, filePath \in ReadPaths : Read(op, filePath)

ReadSpec == Init /\ [][ReadNext]_vars

\* two handles on one client: what writes the shared members, and the reads of a handle
HandleNext ==
    \/ \E outcome \in {"established", "failed"} : RepoSubscriptionsSettled(outcome)
    \/ \E value \in BOOLEAN : _conflictStateChanged(value)
    \/ StatusFetched("uncommitted", [p \in LifecyclePaths |-> "M"])
    \/ StatusFetchEnded("uncommitted")
    \/ commit(<< >>, SuccessExit)
    \/ destroy
    \/ \E h \in Handles, op \in HandleReads, filePath \in LifecyclePaths :
           HandleRead(h, op, filePath)

HandleSpec == Init /\ [][HandleNext]_vars

\* the bounded caches under a workload that fills each past its max: until the last key
\* of its universe is in it, a cache is asked for its first key again and for the least
\* key it does not hold; the file-content cache comes first, then the head-content
\* cache, then the file-changes cache, one lookup and one file event at a time
LeastOf(S) == CHOOSE x \in S : \A y \in S : x <= y
GreatestOf(S) == CHOOSE x \in S : \A y \in S : x >= y
CacheRevisions(max) == 1..(max + 1)
CachePaths == {p \in 1..(FileContentsAtHeadMax + 2) : isPathRelevantToRepository(p)}
Workload(cache, universe) ==
    IF GreatestOf(universe) \in LRUKeys(cache) THEN {}
    ELSE {LeastOf(universe), LeastOf(universe \ LRUKeys(cache))}
\* the next cache has its turn once this one is full, its first key was looked up again
\* and the insertion of the last key has dropped the second key
WorkloadDone(cache, universe, max) ==
    /\ Len(cache) = max
    /\ cache[1].key = GreatestOf(universe)
    /\ cache[2].key = LeastOf(universe)
ContentsDone ==
    WorkloadDone(fileContentsAtRevisionIds, CacheRevisions(FileContentsAtRevisionIdsMax),
                 FileContentsAtRevisionIdsMax)
HeadDone == WorkloadDone(fileContentsAtHead, CachePaths, FileContentsAtHeadMax)
CacheNext ==
    \/ /\ FreeRequests = RequestSlots
       /\ \E revision \in Workload(fileContentsAtRevisionIds,
                                   CacheRevisions(FileContentsAtRevisionIdsMax)) :
              fetchFileContentAtRevision(LeastOf(Paths), revision)
    \/ \E r \in RequestSlots : FileContentAtRevisionFetched(r)
    \/ /\ ContentsDone /\ FreeSlots = BatchSlots
       /\ \E p \in Workload(fileContentsAtHead, CachePaths) : UpdateDiffInfo(<<p>>)
    \/ \E b \in BatchSlots : HeadIdResult(b, LeastOf(Revs))
    \/ \E b \in BatchSlots, p \in CachePaths : HeadContentResult(b, p)
    \/ \E b \in BatchSlots : FileDiffsResult(b)
    \/ /\ ContentsDone /\ HeadDone /\ FreeRequests = RequestSlots
       /\ \E revision \in Workload(revisionIdToFileChanges,
                                   CacheRevisions(RevisionIdToFileChangesMax)) :
              fetchFilesChangedAtRevision(revision)
    \/ \E r \in RequestSlots : FilesChangedAtRevisionFetched(r)

CacheSpec == Init /\ [][CacheNext]_vars

\* the cache-or-fetch accessors with two lookups in flight: lookups of one path at the
\* first revision and at the least revision the file-content cache does not hold, until
\* the cache has overflowed, and lookups of the changes of one revision
AccessorNext ==
    \/ \E revision \in Workload(fileContentsAtRevisionIds,
                                CacheRevisions(FileContentsAtRevisionIdsMax)) :
           fetchFileContentAtRevision(LeastOf(Paths), revision)
    \/ \E r \in RequestSlots : FileContentAtRevisionFetched(r)
    \/ \E revision \in LifecycleRevs : fetchFilesChangedAtRevision(revision)
    \/ \E r \in RequestSlots : FilesChangedAtRevisionFetched(r)

AccessorSpec == Init /\ [][AccessorNext]_vars

\* ------------------------------------------------------------------ claims
NonIdle == {b \in BatchSlots : batches[b].stage # "idle"}

\* C1: a path whose removal was queued while its diff fetch was in flight is absent
\* from the diff cache once its own batch has completed: the result of that fetch
\* does not put the path back.
C1_DeferredDeletion ==
    [][\A b \in BatchSlots :
          FileDiffsResult(b) =>
              \A p \in Range(batches[b].paths) \cap removedInFlight :
                  p \notin DOMAIN hgDiffCache']_vars

\* C2: every path accepted into a batch leaves the in-flight guard when the batch
\* ends, with diffs, with no head revision or with a failed backend call: while the
\* client lives, the guard holds only paths of batches in flight.
C2_GuardReleased ==
    ~isDestroyed => hgDiffCacheFilesUpdating \subseteq InFlightPaths

\* C3: at most one diff fetch per path is outstanding, and a path is in the guard
\* from the step that accepts it: no path is in two batches or twice in one, and
\* every path of a batch in flight is in the guard.
C3_OneFetchPerPath ==
    /\ \A b \in BatchSlots, c \in BatchSlots :
           b # c => Range(batches[b].paths) \cap Range(batches[c].paths) = {}
    /\ \A b \in BatchSlots : Cardinality(Range(batches[b].paths)) = Len(batches[b].paths)
    /\ InFlightPaths \subseteq hgDiffCacheFilesUpdating

\* two batches are in flight at once, each for its own path, some content still awaited
C3_Witness ==
    /\ Cardinality(NonIdle) = MaxBatches
    /\ \E b \in NonIdle :
           batches[b].stage = "diff" /\ DOMAIN batches[b].content # Range(batches[b].paths)
    /\ InFlightPaths = hgDiffCacheFilesUpdating

\* C7: a revision-changing trigger clears the memoized head revision.
C7_HeadIdInvalidated ==
    [][RevisionsUpdate => currentHeadId' = Null]_vars

\* C8: a revision refresh asks the revisions cache to refresh and leaves the
\* head-content cache and the diff cache empty, and the first diff computation of a
\* path after it requests the head content instead of using a memoized one.
C8_RefreshRefetches ==
    [][/\ RevisionsUpdate =>
              /\ emitted' = <<"refreshRevisions">>
              /\ fileContentsAtHead' = LRUReset
              /\ hgDiffCache' = EmptyMap
       /\ \A b \in BatchSlots :
              (batches[b].stage # "diff" /\ batches'[b].stage = "diff") =>
                  DOMAIN batches'[b].content \subseteq fetchedSinceRefresh]_vars

\* C4: once destroy() has run, no step changes the status cache, the diff cache or
\* one of the three bounded caches.
C4_NoMutationAfterDestroy ==
    [][isDestroyed => UNCHANGED cacheVars]_vars

\* C5: whatever the number of destroy() calls, only the first emits 'did-destroy' and
\* disposes the owned subscriptions, once; a later call changes nothing.
C5_DestroyIdempotent ==
    [][/\ "did-destroy" \in Range(emitted') => (~isDestroyed /\ isDestroyed')
       /\ subscriptionsDisposed' = (IF isDestroyed' THEN 1 ELSE 0)
       /\ (destroy /\ ~isDestroyed) => emitted' = <<"did-destroy">>
       /\ (destroy /\ isDestroyed) =>
              /\ emitted' = << >>
              /\ UNCHANGED <<isDestroyed, isInConflict, returned, channelVars, bookmarkVars,
                             subscriptionsDisposed, repoSubscriptions,
                             repoDisposeCallbacks, repoSubscriptionsDisposed, statusVars,
                             diffVars, accessorVars>>]_vars

\* destroy() was called again on a destroyed client
C5_Witness ==
    /\ isDestroyed
    /\ destroyCalls > 1
    /\ emitted = << >>
    /\ subscriptionsDisposed = 1

\* C6 as stated: the first destroy() leaves the status cache, the diff cache, the
\* head-content cache and both revision caches empty and disposes the subscriptions.
C6_DestroyClearsAllCaches ==
    [][(destroy /\ ~isDestroyed) =>
          /\ hgStatusCache' = EmptyMap
          /\ hgDiffCache' = EmptyMap
          /\ fileContentsAtHead' = LRUReset
          /\ fileContentsAtRevisionIds' = LRUReset
          /\ revisionIdToFileChanges' = LRUReset
          /\ subscriptionsDisposed' = 1]_vars

\* C6 amended: the first destroy() leaves the file-content-at-revision cache and the
\* file-changes-at-revision cache empty and disposes the owned subscriptions; the
\* status cache, the diff cache and the head-content cache keep their contents.
C6_DestroyClearsRevisionCaches ==
    [][(destroy /\ ~isDestroyed) =>
          /\ fileContentsAtRevisionIds' = LRUReset
          /\ revisionIdToFileChanges' = LRUReset
          /\ subscriptionsDisposed' = 1
          /\ UNCHANGED <<hgStatusCache, hgDiffCache, fileContentsAtHead>>]_vars

\* right after the first destroy(): a fetch writes to a Map the cache has dropped,
\* the other caches still hold their entries
C6_Witness ==
    /\ isDestroyed
    /\ emitted = <<"did-destroy">>
    /\ \E r \in RequestSlots : requests[r].kind = "content" /\ ~requests[r].attached
    /\ fileContentsAtRevisionIds = LRUReset
    /\ revisionIdToFileChanges = LRUReset
    /\ hgStatusCache # EmptyMap
    /\ hgDiffCache # EmptyMap
    /\ fileContentsAtHead # LRUReset

\* the status cache and the diff cache after the cache-clearing side effect for filePaths
Invalidated(filePaths) ==
    IF Len(filePaths) = 0
    THEN hgStatusCache' = EmptyMap /\ hgDiffCache' = EmptyMap
    ELSE /\ hgStatusCache' = MapDelete(hgStatusCache, Range(filePaths))
         /\ hgDiffCache' = MapDelete(hgDiffCache, Range(filePaths))

C10_TargetedOrFull ==
    [][\A filePaths \in RepoPathArrays :
          (commit(filePaths, SuccessExit) \/ amend(filePaths, SuccessExit)) =>
              /\ emitted' = <<"did-change-statuses">>
              /\ IF filePaths = << >>
                 THEN /\ DOMAIN hgStatusCache' = {}
                      /\ DOMAIN hgDiffCache' = {}
                      /\ Len(fileContentsAtHead') = 0
                 ELSE /\ DOMAIN hgStatusCache' = DOMAIN hgStatusCache \ Range(filePaths)
                      /\ \A p \in DOMAIN hgStatusCache' : hgStatusCache'[p] = hgStatusCache[p]
                      /\ DOMAIN hgDiffCache' = DOMAIN hgDiffCache \ Range(filePaths)
                      /\ \A p \in DOMAIN hgDiffCache' : hgDiffCache'[p] = hgDiffCache[p]]_vars

\* right after a successful commit or amend of one path: its diff is gone though its
\* head content is memoized and no batch holds it, the other path keeps its entries
C10_Witness ==
    /\ emitted = <<"did-change-statuses">>
    /\ \E p \in Paths, q \in Paths :
           /\ LRUHas(fileContentsAtHead, p)
           /\ p \notin hgDiffCacheFilesUpdating
           /\ p \notin DOMAIN hgDiffCache
           /\ p \notin DOMAIN hgStatusCache
           /\ q \in DOMAIN hgDiffCache
           /\ q \in DOMAIN hgStatusCache

\* C11: a commit or amend whose process message is not a successful exit leaves the
\* status cache, the diff cache and the head-content cache as they were and emits no
\* 'did-change-statuses'.
C11_FailedCommandKeepsCaches ==
    [][\A filePaths \in RepoPathArrays, message \in CommandMessages \ {SuccessExit} :
          (commit(filePaths, message) \/ amend(filePaths, message)) =>
              /\ UNCHANGED <<hgStatusCache, hgDiffCache, fileContentsAtHead>>
              /\ "did-change-statuses" \notin Range(emitted')]_vars

\* a step without notification, as a failed commit is, leaves all three caches filled
\* while no fetch of any kind is in flight
C11_Witness ==
    /\ emitted = << >>
    /\ hgStatusCache # EmptyMap
    /\ hgDiffCache # EmptyMap
    /\ fileContentsAtHead # LRUReset
    /\ NonIdle = {}
    /\ statusFetching = {}

\* C13: a failing getHeadId leaves the diff cache as it was, ends no subscription of
\* the diff pipeline and leaves later diff update requests processed.
C13_HeadIdFailureContained ==
    [][\A b \in BatchSlots :
          (FileDiffsError(b) /\ batches[b].stage = "headId") =>
              /\ hgDiffCache' = hgDiffCache
              /\ DiffStatsSubscribed'
              /\ Range(batches[b].paths) \cap hgDiffCacheFilesUpdating' = {}]_vars

\* C12: a failed status fetch sends no error to the subscribers of its channel, leaves
\* the status cache as it was and the channel ready for its next trigger, and leaves
\* the fetches, the windows and the streams of the other two channels as they were.
C12_StatusFailureContained ==
    [][\A ch \in Channels :
          StatusFetchFailed(ch) =>
              /\ statusErrored' = {}
              /\ hgStatusCache' = hgStatusCache
              /\ ch \in statusObserved'
              /\ \A other \in Channels \ {ch} :
                     /\ (other \in statusFetching') = (other \in statusFetching)
                     /\ statusDebounce'[other] = statusDebounce[other]
                     /\ isCalculatingChanges'[other] = isCalculatingChanges[other]]_vars

\* right after a failed fetch: the status cache holds an earlier snapshot, another
\* channel is still fetching
C12_Witness ==
    /\ emitted = <<"error: HgService cannot fetch statuses">>
    /\ hgStatusCache # EmptyMap
    /\ statusFetching # {}
    /\ statusErrored = {}

\* C14: a bookmark fetch that fails on its last retry leaves the bookmark list as it
\* was, the loading flag false and the bookmark pipeline subscribed.
C14_BookmarkFetchExhausted ==
    [][(BookmarksFetchFailed /\ bookmarksFetching > BookmarksRetries) =>
          /\ bookmarks'.bookmarks = bookmarks.bookmarks
          /\ bookmarks'.isLoading = FALSE
          /\ ~isDestroyed']_vars

\* C15: the events of one quiet window start no fetch themselves and open or extend
\* the window of every subscribed channel; the end of a window, whatever the number
\* of events in it, starts one fetch on its channel alone and closes the window.
C15_OneFetchPerWindow ==
    [][/\ (requestPathStatusRefresh \/ FilesDidChange) =>
              /\ statusFetching' = statusFetching
              /\ \A ch \in statusObserved : statusDebounce'[ch] >= 1
       /\ \A ch \in Channels :
              DebouncedTrigger(ch) =>
                  /\ statusDebounce[ch] >= 1
                  /\ statusDebounce'[ch] = 0
                  /\ ch \in statusFetching'
                  /\ \A other \in Channels \ {ch} :
                         /\ (other \in statusFetching') = (other \in statusFetching)
                         /\ statusDebounce'[other] = statusDebounce[other]]_vars

\* the window of one channel has closed with a fetch started, the window of another
\* holds a burst of events
C15_Witness ==
    /\ manualRefreshRequested
    /\ \E ch \in Channels, other \in Channels :
           /\ statusDebounce[ch] = 0
           /\ ch \in statusFetching
           /\ isCalculatingChanges[ch]
           /\ {ch, other} \subseteq statusObserved
           /\ statusDebounce[other] = MaxBurst

\* C16: a trigger leaves no superseded fetch of its channel subscribed; a superseded
\* fetch never changes the status cache, and a snapshot of the latest uncommitted
\* fetch becomes the status cache.
C16_SwitchToLatest ==
    [][/\ \A ch \in Channels : DebouncedTrigger(ch) => ch \notin supersededFetching'
       /\ \A statuses \in StatusResults :
              /\ StatusDelivered("uncommitted", statuses, FALSE) =>
                     hgStatusCache' = hgStatusCache
              /\ StatusDelivered("uncommitted", statuses, TRUE) =>
                     hgStatusCache' = mapTransform(statuses)]_vars

\* only the uncommitted channel is subscribed and a trigger has superseded its fetch in
\* flight (the finally of the older fetch sent false), after a snapshot was stored
C16_Witness ==
    /\ statusObserved = {"uncommitted"}
    /\ statusFetching = {"uncommitted"}
    /\ ~isFetchingPathStatuses
    /\ statusDebounce["uncommitted"] = 0
    /\ manualRefreshRequested
    /\ hgStatusCache # EmptyMap

\* C17: while a status fetch is subscribed, the last value sent on
\* isFetchingPathStatuses is true.
C17_InFlightWhileFetching ==
    statusFetching # {} => isFetchingPathStatuses

\* C18: after a fetch of a channel delivered a snapshot or failed, the last value of
\* the channel's isCalculatingChanges is false.
C18_CalculatingEndsFalse ==
    [][\A ch \in Channels :
          (StatusFetchFailed(ch) \/ \E statuses \in StatusResults : StatusFetched(ch, statuses)) =>
              isCalculatingChanges'[ch] = FALSE]_vars

\* C20 as stated: with the repository subscriptions failed, no notification arrives,
\* the status cache does not change before a manual refresh is requested, a manual
\* refresh opens the window whose end starts a fetch, and the then() of destroy()
\* disposes nothing.
C20_NoUpdateUntilManualRefresh ==
    [][/\ repoSubscriptions = "failed" => (~FilesDidChange /\ ~BookmarksDidChange)
       /\ (repoSubscriptions = "failed" /\ ~manualRefreshRequested) =>
              hgStatusCache' = hgStatusCache
       /\ requestPathStatusRefresh => \A ch \in statusObserved : statusDebounce'[ch] >= 1
       /\ \A ch \in Channels : DebouncedTrigger(ch) => ch \in statusFetching'
       /\ (RepoSubscriptionsThen /\ repoSubscriptions = "failed") =>
              repoSubscriptionsDisposed' = repoSubscriptionsDisposed]_vars

\* C20 amended: with the repository subscriptions failed, no notification arrives and
\* no fetch is started before a manual refresh is requested, so that the status cache
\* changes only by the fetch made on subscription; a manual refresh opens the window
\* whose end starts a fetch, and the then() of destroy() disposes nothing.
C20_NoFetchUntilManualRefresh ==
    [][/\ repoSubscriptions = "failed" => (~FilesDidChange /\ ~BookmarksDidChange)
       /\ (repoSubscriptions = "failed" /\ ~manualRefreshRequested) =>
              /\ \A ch \in Channels : ~DebouncedTrigger(ch)
              /\ \A ch \in Channels : statusDebounce[ch] = 0
              /\ hgStatusCache' # hgStatusCache =>
                     \E statuses \in StatusResults : StatusFetched("uncommitted", statuses)
       /\ requestPathStatusRefresh => \A ch \in statusObserved : statusDebounce'[ch] >= 1
       /\ \A ch \in Channels : DebouncedTrigger(ch) => ch \in statusFetching'
       /\ (RepoSubscriptionsThen /\ repoSubscriptions = "failed") =>
              repoSubscriptionsDisposed' = repoSubscriptionsDisposed]_vars

\* the subscriptions failed, a manual refresh was requested and its window has ended
\* with a fetch started; destroy() ran and its then() disposed nothing
C20_Witness ==
    /\ repoSubscriptions = "failed"
    /\ manualRefreshRequested
    /\ statusDebounce["uncommitted"] = 0
    /\ "uncommitted" \in statusFetching
    /\ hgStatusCache # EmptyMap
    /\ isDestroyed
    /\ repoDisposeCallbacks = 0
    /\ repoSubscriptionsDisposed = 0

\* C19: the file-content-at-revision cache never holds more than 20 keys, the
\* head-content cache never more than 30, the file-changes-at-revision cache never
\* more than 100; a cache changes only by a reset or by a use of one key, which makes
\* that key the most recent one, keeps the order of the others and drops the least
\* recently used key beyond the max; a lookup that hits and an insertion are uses.
C19_BoundedLRU ==
    [][LET KeysOf(cache) == [i \in 1..Len(cache) |-> cache[i].key]
           Used(old, new, max) ==
               /\ Len(new) >= 1
               /\ Len(new) <= max
               /\ LET others == SelectSeq(KeysOf(old), LAMBDA k : k # new[1].key)
                  IN  Tail(KeysOf(new)) =
                          IF Len(others) > max - 1 THEN SubSeq(others, 1, max - 1) ELSE others
           Kept(old, new, max) ==
               \/ new = old
               \/ new = LRUReset
               \/ KeysOf(new) = KeysOf(old)
               \/ Used(old, new, max)
       IN  /\ Len(fileContentsAtRevisionIds') <= 20
           /\ Len(fileContentsAtHead') <= 30
           /\ Len(revisionIdToFileChanges') <= 100
           /\ Kept(fileContentsAtRevisionIds, fileContentsAtRevisionIds', 20)
           /\ Kept(fileContentsAtHead, fileContentsAtHead', 30)
           /\ Kept(revisionIdToFileChanges, revisionIdToFileChanges', 100)
           /\ \A revision \in Workload(revisionIdToFileChanges,
                                       CacheRevisions(RevisionIdToFileChangesMax)) :
                  (/\ fetchFilesChangedAtRevision(revision)
                   /\ LRUHas(revisionIdToFileChanges, revision)) =>
                      revisionIdToFileChanges'[1].key = revision
           /\ \A r \in RequestSlots :
                  FilesChangedAtRevisionFetched(r) =>
                      revisionIdToFileChanges'[1].key = requests[r].rev
           /\ \A revision \in Workload(fileContentsAtRevisionIds,
                                       CacheRevisions(FileContentsAtRevisionIdsMax)) :
                  fetchFileContentAtRevision(LeastOf(Paths), revision) =>
                      fileContentsAtRevisionIds'[1].key = revision
           /\ \A b \in BatchSlots : \A p \in Range(batches[b].paths) :
                  HeadContentResult(b, p) => fileContentsAtHead'[1].key = p
           /\ \A p \in Workload(fileContentsAtHead, CachePaths) :
                  (UpdateDiffInfo(<<p>>) /\ LRUHas(fileContentsAtHead, p)
                       /\ p \notin hgDiffCacheFilesUpdating /\ currentHeadId # Null) =>
                      fileContentsAtHead'[1].key = p]_vars

\* each cache is full; in the file-changes cache and the head-content cache the first
\* key was looked up again before the insertion that passed the max, which dropped the
\* second key and kept the first
C19_Witness ==
    /\ Len(revisionIdToFileChanges) = RevisionIdToFileChangesMax
    /\ revisionIdToFileChanges[1].key = RevisionIdToFileChangesMax + 1
    /\ revisionIdToFileChanges[2].key = 1
    /\ ~LRUHas(revisionIdToFileChanges, 2)
    /\ Len(fileContentsAtRevisionIds) = FileContentsAtRevisionIdsMax
    /\ ~LRUHas(fileContentsAtRevisionIds, 2)
    /\ LRUHas(fileContentsAtRevisionIds, 1)
    /\ Len(fileContentsAtHead) = FileContentsAtHeadMax
    /\ fileContentsAtHead[2].key = 1
    /\ ~LRUHas(fileContentsAtHead, 2)

\* C21: a delivered uncommitted-status fetch leaves in the status cache the fetched
\* mapping with every status id replaced by its numeric code, and for a path with the
\* cached status S isPathModified returns true iff S is MODIFIED, isPathNew iff S is
\* ADDED or UNTRACKED, isPathAdded iff S is ADDED, isPathUntracked iff S is UNTRACKED,
\* isPathIgnored iff S is IGNORED.
C21_StatusClassification ==
    [][LET CodeOf(id) ==
               CASE id = "A" -> StatusCodeNumber.ADDED
                 [] id = "C" -> StatusCodeNumber.CLEAN
                 [] id = "I" -> StatusCodeNumber.IGNORED
                 [] id = "M" -> StatusCodeNumber.MODIFIED
                 [] id = "!" -> StatusCodeNumber.MISSING
                 [] id = "R" -> StatusCodeNumber.REMOVED
                 [] id = "?" -> StatusCodeNumber.UNTRACKED
           Expected(op, S) ==
               CASE op = "isPathModified" -> S = StatusCodeNumber.MODIFIED
                 [] op = "isPathNew" ->
                        S \in {StatusCodeNumber.ADDED, StatusCodeNumber.UNTRACKED}
                 [] op = "isPathAdded" -> S = StatusCodeNumber.ADDED
                 [] op = "isPathUntracked" -> S = StatusCodeNumber.UNTRACKED
                 [] op = "isPathIgnored" -> S = StatusCodeNumber.IGNORED
       IN  /\ \A uriToStatusIds \in ReadSnapshots :
                  StatusFetched("uncommitted", uriToStatusIds) =>
                      /\ DOMAIN hgStatusCache' = DOMAIN uriToStatusIds
                      /\ \A p \in DOMAIN uriToStatusIds :
                             hgStatusCache'[p] = CodeOf(uriToStatusIds[p])
           /\ \A op \in StatusReads \ {"getPathStatus", "getCachedPathStatus"} :
                  \A filePath \in DOMAIN hgStatusCache :
                      Read(op, filePath) =>
                          returned'[3] = Expected(op, hgStatusCache[filePath])]_vars

\* isPathNew has returned true for a path whose cached status, stored by a status
\* fetch, is UNTRACKED
C21_Witness ==
    /\ returned[1] = "isPathNew"
    /\ returned[2] \in DOMAIN hgStatusCache
    /\ hgStatusCache[returned[2]] = StatusCodeNumber.UNTRACKED
    /\ returned[3] = TRUE

\* C22: for a path that is not in the status cache, and for the null path, getPathStatus
\* and getCachedPathStatus return CLEAN; for a path that is not in the diff cache
\* getDiffStats returns {added: 0, deleted: 0} and getLineDiffs returns the empty list;
\* the read starts no backend call and changes no state.
C22_ReadsDefaultOnMiss ==
    [][\A filePath \in ReadPaths :
           /\ \A op \in {"getPathStatus", "getCachedPathStatus"} :
                  (Read(op, filePath) /\ filePath \notin DOMAIN hgStatusCache) =>
                      returned'[3] = StatusCodeNumber.CLEAN
           /\ (Read("getDiffStats", filePath) /\ filePath \notin DOMAIN hgDiffCache) =>
                  returned'[3] = [added |-> 0, deleted |-> 0]
           /\ (Read("getLineDiffs", filePath) /\ filePath \notin DOMAIN hgDiffCache) =>
                  returned'[3] = << >>
           /\ \A op \in {"getPathStatus", "getCachedPathStatus", "getDiffStats",
                         "getLineDiffs"} :
                  Read(op, filePath) =>
                      /\ emitted' = << >>
                      /\ UNCHANGED <<cacheVars, lifecycleVars, isInConflict, channelVars,
                                     bookmarkVars, statusVars, diffVars, accessorVars>>]_vars

\* getPathStatus has returned CLEAN for a path that has no entry while the status cache
\* and the diff cache hold entries of another path
C22_Witness ==
    /\ returned[1] = "getPathStatus"
    /\ returned[2] \in Paths \ DOMAIN hgStatusCache
    /\ returned[3] = StatusCodeNumber.CLEAN
    /\ hgStatusCache # EmptyMap
    /\ hgDiffCache # EmptyMap

C29_ConflictFlagTracks ==
    /\ isInConflict = FALSE
    /\ [][/\ \A value \in BOOLEAN : _conflictStateChanged(value) => isInConflict' = value
          /\ isInConflict' # isInConflict =>
                 /\ \E value \in BOOLEAN : _conflictStateChanged(value)
                 /\ emitted' = <<"did-change-conflict-state">>
          /\ \A h \in Handles, filePath \in LifecyclePaths :
                 HandleRead(h, "isInConflict", filePath) => returned'[3] = isInConflict]_vars

\* isInConflict() had returned true, and the last notification has set the flag to false
\* and emitted the event
C29_Witness ==
    /\ returned[1] = "isInConflict"
    /\ returned[3] = TRUE
    /\ isInConflict = FALSE
    /\ emitted = <<"did-change-conflict-state">>

\* C24: a lookup of fetchFileContentAtRevision or fetchFilesChangedAtRevision that misses
\* issues exactly one backend fetch, and when its result is delivered a lookup of the
\* same key in the bounded cache returns that result, whatever other lookups inserted
\* into or evicted from the cache meanwhile; a lookup that hits issues no backend fetch.
C24_FetchedResultIsCached ==
    [][LET InFlight(reqs) == {r \in RequestSlots : reqs[r].kind # "idle"}
       IN  /\ \A r \in RequestSlots :
                  FileContentAtRevisionFetched(r) =>
                      /\ LRUHas(fileContentsAtRevisionIds', requests[r].rev)
                      /\ MapGet(LRUPeek(fileContentsAtRevisionIds', requests[r].rev),
                                requests[r].path)
                             = ContentAt(requests[r].path, requests[r].rev)
           /\ \A r \in RequestSlots :
                  FilesChangedAtRevisionFetched(r) =>
                      LRUPeek(revisionIdToFileChanges', requests[r].rev)
                          = ChangesAt(requests[r].rev)
           /\ \A revision \in LifecycleRevs :
                  fetchFilesChangedAtRevision(revision) =>
                      IF LRUHas(revisionIdToFileChanges, revision)
                      THEN requests' = requests
                      ELSE /\ Cardinality(InFlight(requests')) = Cardinality(InFlight(requests)) + 1
                           /\ \E r \in InFlight(requests') \ InFlight(requests) :
                                  requests'[r].kind = "changes" /\ requests'[r].rev = revision
           /\ \A revision \in CacheRevisions(FileContentsAtRevisionIdsMax) :
                  fetchFileContentAtRevision(LeastOf(Paths), revision) =>
                      IF MapGet(LRUPeek(fileContentsAtRevisionIds', revision), LeastOf(Paths))
                             # Null
                      THEN InFlight(requests') = InFlight(requests)
                      ELSE /\ Cardinality(InFlight(requests')) = Cardinality(InFlight(requests)) + 1
                           /\ \E r \in InFlight(requests') \ InFlight(requests) :
                                  requests'[r].kind = "content" /\ requests'[r].rev = revision
      ]_vars

\* C25: the first destroy() sets the destroyed flag, emits 'did-destroy', empties the
\* file-content-at-revision and file-changes-at-revision caches and registers the
\* disposal of the backend subscription handle; the handle is disposed exactly once,
\* after the promise has resolved, when it was established, and never when its
\* establishment failed.
C25_DestroyEffects ==
    /\ [][(destroy /\ ~isDestroyed) =>
             /\ isDestroyed'
             /\ emitted' = <<"did-destroy">>
             /\ fileContentsAtRevisionIds' = LRUReset
             /\ revisionIdToFileChanges' = LRUReset
             /\ repoDisposeCallbacks' = repoDisposeCallbacks + 1
             /\ UNCHANGED repoSubscriptionsDisposed]_vars
    /\ [][repoSubscriptionsDisposed' # repoSubscriptionsDisposed =>
             /\ RepoSubscriptionsThen
             /\ isDestroyed
             /\ repoSubscriptions = "established"
             /\ repoSubscriptionsDisposed = 0]_vars
    /\ [](repoSubscriptionsDisposed =
              IF isDestroyed /\ repoSubscriptions = "established" /\ repoDisposeCallbacks = 0
              THEN 1 ELSE 0)
    /\ [](repoDisposeCallbacks <= 1)
    /\ [](~isDestroyed => repoDisposeCallbacks = 0)
    /\ []((isDestroyed /\ repoSubscriptions = "pending") => repoDisposeCallbacks = 1)

\* the client was destroyed while the subscriptions were pending; they were established
\* later and the handle has been disposed
C25_Witness ==
    /\ isDestroyed
    /\ destroyCalls = 1
    /\ repoSubscriptions = "established"
    /\ repoDisposeCallbacks = 0
    /\ repoSubscriptionsDisposed = 1

\* C26: while a head revision is memoized no diff update calls getHeadId; with none
\* memoized a diff update that accepts at least one path calls getHeadId once and the
\* result is stored; a diff update that accepts no path, or whose head revision
\* resolves to null, ends with an empty result and leaves the diff cache unchanged.
C26_HeadIdMemoized ==
    [][LET AwaitingHeadId(bs) == {b \in BatchSlots : bs[b].stage = "headId"}
           called == AwaitingHeadId(batches') \ AwaitingHeadId(batches)
       IN  /\ currentHeadId # Null => called = {}
           /\ \A filePaths \in FilePathArrays :
                  UpdateDiffInfo(filePaths) =>
                      IF PathsToFetch(filePaths, hgDiffCacheFilesUpdating) = << >>
                      THEN UNCHANGED <<batches, hgDiffCache, currentHeadId>>
                      ELSE IF currentHeadId = Null
                      THEN Cardinality(called) = 1 /\ UNCHANGED hgDiffCache
                      ELSE \E b \in BatchSlots :
                               /\ batches[b].stage = "idle"
                               /\ batches'[b].stage = "diff"
                               /\ batches'[b].rev = currentHeadId
           /\ \A b \in BatchSlots, headId \in Revs \cup {Null} :
                  HeadIdResult(b, headId) =>
                      /\ currentHeadId' = headId
                      /\ UNCHANGED hgDiffCache
                      /\ IF headId = Null
                         THEN batches'[b] = IdleBatch
                         ELSE batches'[b].stage = "diff" /\ batches'[b].rev = headId]_vars

\* a diff update started from the memoized head revision after an earlier one had
\* fetched it and filled the diff cache
C26_Witness ==
    /\ currentHeadId # Null
    /\ hgDiffCache # EmptyMap
    /\ \E b \in BatchSlots : batches[b].stage = "diff" /\ batches[b].rev = currentHeadId
    /\ \A b \in BatchSlots : batches[b].stage # "headId"

\* C30: once a revision refresh has cleared the diff cache, no diff fetch that was
\* started before the refresh puts an entry into the diff cache, however the refresh
\* interleaves with the batches in flight.
C30_NoStaleDiffAfterRefresh ==
    [][\A b \in BatchSlots :
          FileDiffsResult(b) =>
              \A p \in Range(batches[b].paths) \cap staleInFlight :
                  p \notin DOMAIN hgDiffCache']_vars

\* C27: a bookmark trigger starts the first attempt of a fetch and abandons the attempts
\* of the trigger before it; a failed attempt is followed by the next one up to the
\* third, after which the fetch ends; the first attempt that succeeds ends the fetch,
\* replaces the bookmark list by the fetched one and sets the loading flag to false.
C27_BookmarkAttempts ==
    /\ [](bookmarksFetching \in 0..(BookmarksRetries + 1))
    /\ [][/\ BookmarksTrigger => bookmarksFetching' = 1
          /\ \A list \in BookmarkLists :
                 BookmarksFetched(list) =>
                     /\ bookmarks' = [isLoading |-> FALSE, bookmarks |-> list]
                     /\ bookmarksFetching' = 0
          /\ BookmarksFetchFailed =>
                 /\ bookmarksFetching' =
                        IF bookmarksFetching < BookmarksRetries + 1
                        THEN bookmarksFetching + 1 ELSE 0
                 /\ UNCHANGED bookmarks
          /\ (bookmarksFetching' # bookmarksFetching /\ bookmarksFetching' > 1) =>
                 /\ BookmarksFetchFailed
                 /\ bookmarksFetching' = bookmarksFetching + 1
          /\ bookmarks' # bookmarks => \E list \in BookmarkLists : BookmarksFetched(list)
         ]_vars

\* a fetch has succeeded, and the fetch of a later trigger is at its third attempt
C27_Witness ==
    /\ ~bookmarks.isLoading
    /\ bookmarks.bookmarks # << >>
    /\ bookmarksFetching = BookmarksRetries + 1

\* C28: a further subscriber of a status channel that has a subscriber receives at once
\* the most recent snapshot of the channel, if there is one, and its subscription
\* starts no fetch: a fetch of a channel starts only at a trigger of the channel, the
\* one of its first subscription included.
C28_LateSubscribersShare ==
    [][/\ \A ch \in Channels :
              ObserveStatusChangesAgain(ch) =>
                  /\ returned'[3] = statusReplay[ch]
                  /\ ch = "uncommitted" =>
                         returned'[3] = IF statusReplay[ch] = << >> THEN << >>
                                        ELSE <<hgStatusCache>>
                  /\ UNCHANGED <<statusFetching, supersededFetching, isFetchingPathStatuses,
                                 isCalculatingChanges, statusDebounce, statusReplay>>
       /\ \A ch \in Channels :
              (ch \in statusFetching' \ statusFetching \/ ch \in supersededFetching' \ supersededFetching) =>
                  DebouncedTrigger(ch) \/ ObserveStatusChanges(ch)
       /\ \A ch \in Channels, statuses \in StatusResults :
              StatusFetched(ch, statuses) => statusReplay'[ch] = <<mapTransform(statuses)>>
      ]_vars

\* a further subscriber of the uncommitted channel has received the snapshot the status
\* cache holds, while the next fetch of the channel is in flight
C28_Witness ==
    /\ returned[1] = "statusChanges"
    /\ returned[2] = "uncommitted"
    /\ returned[3] = <<hgStatusCache>>
    /\ hgStatusCache # EmptyMap
    /\ "uncommitted" \in statusFetching

\* C31: every path put into the pending-removal set is eventually out of the diff cache
\* and out of the pending-removal set, also when no diff batch is in flight then and
\* none completes afterwards.
C31_QueuedRemovalApplied ==
    \A p \in Paths :
        (p \in hgDiffCacheFilesToClear)
            ~> (p \notin hgDiffCacheFilesToClear /\ p \notin DOMAIN hgDiffCache)

\* C32: a call of fetchFileContentAtRevision or fetchFilesChangedAtRevision whose
\* backend fetch has not completed yet, or fails, inserts no key into and evicts no key
\* from the file-content-at-revision cache and the file-changes-at-revision cache.
C32_PendingFetchKeepsKeys ==
    [][LET KeysKept == /\ LRUKeys(fileContentsAtRevisionIds') = LRUKeys(fileContentsAtRevisionIds)
                       /\ LRUKeys(revisionIdToFileChanges') = LRUKeys(revisionIdToFileChanges)
           InFlight(reqs) == {r \in RequestSlots : reqs[r].kind # "idle"}
       IN  /\ \A filePath \in Paths, revision \in Revs :
                  (/\ fetchFileContentAtRevision(filePath, revision)
                   /\ InFlight(requests') # InFlight(requests)) => KeysKept
           /\ \A revision \in Revs :
                  (/\ fetchFilesChangedAtRevision(revision)
                   /\ InFlight(requests') # InFlight(requests)) => KeysKept
           /\ \A r \in RequestSlots : RequestFailed(r) => KeysKept]_vars

\* C33: every step that changes the content of the diff cache emits
\* 'did-change-statuses' in the same step.
C33_DiffCacheChangeAnnounced ==
    [][hgDiffCache' # hgDiffCache => "did-change-statuses" \in Range(emitted')]_vars

\* C34: while the enableDiffStats setting is false the diff cache is empty, also when a
\* diff batch started before the setting changed completes afterwards.
C34_DisabledKeepsDiffCacheEmpty ==
    ~enableDiffStats => hgDiffCache = EmptyMap

====
